---- MODULE Spec2Model ----
(***************************************************************************)
(* Planning-poker room session engine: the socket.io protocol handlers     *)
(* (src/server/socketHandlers.ts and its Redis-backed revision) over the   *)
(* room store (src/server/roomStore.ts).                                   *)
(*                                                                         *)
(* One action per inbound event; a handler runs from its getRoom to its    *)
(* last emit as one step.  The variable "variant" selects which of the two *)
(* revisions of the handlers the behaviour follows:                        *)
(*   "sync"  - socketHandlers.ts: rooms mutated in place, admin-disconnect *)
(*             grace timer;                                                *)
(*   "async" - the revision that loads a room with getRoom and persists it *)
(*             with saveRoom (serializeRoom / deserializeRoom), has no     *)
(*             grace timer, and subscribes a socket on check-room.         *)
(***************************************************************************)
EXTENDS Integers, FiniteSets, Sequences, TLC

\* ---------------------------------------------------------------- bounds
MaxRooms == 2
MaxSessions == 3
MaxConns == 2
MaxTokens == 2
MaxVote == 1
MaxClock == 1
MaxTargetRooms == 1
MaxSettingsUpdates == 1
\* in a behaviour that exercises settings and the timer: the sessions and tokens
MaxRoundSessions == 2
MaxRoundTokens == 1
\* the participant cap of join-room (const MAX_PARTICIPANTS = 10), scaled
\* down: the handler only compares participants.size with it
MAX_PARTICIPANTS == 2

RoomIds == 1..MaxRooms
Sessions == 1..MaxSessions
Conns == 1..MaxConns
Values == 1..MaxVote
Times == 1..MaxClock
\* the room identifiers that clients address events to
TargetRooms == 1..MaxTargetRooms
NoToken == 0
NoSocket == 0
NoTime == 0

VARIABLES
  variant,      \* "sync" | "async": which revision of the handlers runs
  scope,        \* "members" | "round": which inputs the clients draw from
  rooms,        \* roomId -> room record, for the live rooms
  usedIds,      \* reserved room identifiers (usedId: markers)
  socketToRoom, \* connection registry: conn -> [roomId, sessionId]
  joined,       \* socket.io channel membership: conn -> set of roomIds
  status,       \* conn -> "open" | "closed"
  nextToken,    \* tokens 1..nextToken-1 have been generated
  seen,         \* session identifiers the server has generated or been sent
  timers,       \* roomId -> number of pending admin-disconnect timeouts
  updates,      \* number of update-settings events applied so far
  calls,        \* conn -> the store call in progress on behalf of that connection
  out,          \* the events emitted by the last handler, in order
  ev            \* the inbound event the last handler processed

vars == <<variant, scope, calls, rooms, usedIds, socketToRoom, joined, status, nextToken,
          seen, timers, updates, out, ev>>

\* ---------------------------------------------------------------- helpers
Put(f, k, v) == [x \in (DOMAIN f) \cup {k} |-> IF x = k THEN v ELSE f[x]]
Drop(f, K) == [x \in (DOMAIN f) \ K |-> f[x]]
Without(seq, K) == SelectSeq(seq, LAMBDA x : x \notin K)
Min(S) == CHOOSE x \in S : \A y \in S : x <= y

OptionsDefault == <<1, 2, 3, 5, 8, 13, 20, 40>>
OptionsAlt == <<1, 2, 4, 8>>

DEFAULT_SETTINGS ==
  [estimateOptions |-> OptionsDefault,
   allowOthersToShowEstimates |-> FALSE,
   allowOthersToDeleteEstimates |-> FALSE,
   allowOthersToClearUsers |-> FALSE,
   showTimer |-> TRUE,
   timerDuration |-> 15,
   showAverage |-> TRUE,
   showUserPresence |-> TRUE]

\* the partial settings objects a client sends with update-settings
Patches ==
  { [allowOthersToShowEstimates |-> TRUE],
    [allowOthersToDeleteEstimates |-> TRUE],
    [allowOthersToClearUsers |-> TRUE],
    [allowOthersToShowEstimates |-> FALSE,
     allowOthersToDeleteEstimates |-> FALSE,
     allowOthersToClearUsers |-> FALSE],
    [estimateOptions |-> OptionsAlt],
    [estimateOptions |-> OptionsDefault] }

\* { ...room.settings, ...settings }
MergeSettings(settings, patch) ==
  [k \in DOMAIN settings |-> IF k \in DOMAIN patch THEN patch[k] ELSE settings[k]]

\* the inbound event a handler run processes
Event(type, c, r, s, tok) ==
  [type |-> type, conn |-> c, room |-> r, sid |-> s, token |-> tok]

NoEvent == [type |-> "none", conn |-> 0, room |-> 0, sid |-> 0, token |-> 0]

\* a socket that can emit, in a behaviour whose last handler run is not yet taken
CanSend(c) == ev.type = "none" /\ status[c] = "open"

\* the handler run of event e emits msgs.  A behaviour records the event and the
\* emissions of its last handler run only (ev, out), and ends there: every handler
\* run from every reachable state is the last one of some behaviour.
Handle(e, msgs) ==
  \/ ev' = NoEvent /\ out' = <<>>
  \/ ev' = e /\ out' = msgs

\* an emitted event: how it is addressed (via), the connections that receive it
\* (to), its name and its payload
Msg(target, name, data) ==
  [via |-> target.via, to |-> target.to, ev |-> name, data |-> data]

\* the connections subscribed to the channel of room r
Channel(r) == {c \in Conns : r \in joined[c]}

\* socket.emit / io.to(roomId).emit / socket.to(roomId).emit
ToSocket(c) == [via |-> "socket", to |-> {c}]
ToRoom(r) == [via |-> "room", to |-> Channel(r)]
ToOthers(c, r) == [via |-> "others", to |-> Channel(r) \ {c}]
\* io.to(roomId).emit from the disconnect handler: the socket has left its channels
ToRoomLeft(c, r) == [via |-> "room", to |-> Channel(r) \ {c}]

\* ---------------------------------------------------------------- store
serializeRoom(room) ==
  [adminToken |-> room.adminToken,
   adminSessionId |-> room.adminSessionId,
   settings |-> room.settings,
   order |-> room.order,
   participants |->
     [s \in DOMAIN room.participants |->
        [isAdmin |-> room.participants[s].isAdmin,
         isConnected |-> room.participants[s].isConnected,
         hasVoted |-> room.participants[s].hasVoted]],
   votes |-> room.votes,
   isRevealed |-> room.isRevealed,
   timerStartedAt |-> room.timerStartedAt]

deserializeRoom(data) ==
  [adminToken |-> data.adminToken,
   adminSessionId |-> data.adminSessionId,
   settings |-> data.settings,
   order |-> data.order,
   participants |->
     [s \in DOMAIN data.participants |->
        [isAdmin |-> data.participants[s].isAdmin,
         isConnected |-> data.participants[s].isConnected,
         hasVoted |-> data.participants[s].hasVoted,
         socketId |-> NoSocket]],
   votes |-> data.votes,
   isRevealed |-> data.isRevealed,
   timerStartedAt |-> data.timerStartedAt,
   adminDisconnectTimer |-> FALSE]

\* what a later getRoom returns for a room the handler leaves as "room":
\* the object itself (sync) or the record saveRoom wrote (async)
saveRoom(room) ==
  IF variant = "async" THEN deserializeRoom(serializeRoom(room)) ELSE room

\* variation of isRoomIdAvailable that does not look at the usedId: marker
isRoomIdAvailableUnreserved(id) == id \notin DOMAIN rooms

isRoomIdAvailable(id) == id \notin DOMAIN rooms /\ id \notin usedIds

NewRoom(token, adminSessionId) ==
  [adminToken |-> token,
   adminSessionId |-> adminSessionId,
   settings |-> DEFAULT_SETTINGS,
   order |-> <<>>,
   participants |-> <<>>,
   votes |-> <<>>,
   isRevealed |-> FALSE,
   timerStartedAt |-> NoTime,
   adminDisconnectTimer |-> FALSE]

\* variation of roomHasAdmin that does not look at isConnected
roomHasAdminOffline(r) ==
  /\ r \in DOMAIN rooms
  /\ \E s \in DOMAIN rooms[r].participants : rooms[r].participants[s].isAdmin

roomHasAdmin(r) ==
  /\ r \in DOMAIN rooms
  /\ \E s \in DOMAIN rooms[r].participants :
       rooms[r].participants[s].isAdmin /\ rooms[r].participants[s].isConnected

\* ---------------------------------------------------------------- handlers
\* variation of buildRoomState that copies the votes whatever isRevealed is
buildRoomStateUnhidden(r, room) ==
  [roomId |-> r,
   settings |-> room.settings,
   participants |->
     [s \in DOMAIN room.participants |->
        [isAdmin |-> room.participants[s].isAdmin,
         isConnected |-> room.participants[s].isConnected,
         hasVoted |-> room.participants[s].hasVoted]],
   votes |-> room.votes,
   isRevealed |-> room.isRevealed,
   timerStartedAt |-> room.timerStartedAt]

buildRoomState(r, room) ==
  [roomId |-> r,
   settings |-> room.settings,
   participants |->
     [s \in DOMAIN room.participants |->
        [isAdmin |-> room.participants[s].isAdmin,
         isConnected |-> room.participants[s].isConnected,
         hasVoted |-> room.participants[s].hasVoted]],
   votes |-> IF room.isRevealed THEN room.votes ELSE <<>>,
   isRevealed |-> room.isRevealed,
   timerStartedAt |-> room.timerStartedAt]

isAdmin(room, adminToken) ==
  adminToken # NoToken /\ room.adminToken = adminToken

\* the sessions, tokens, settings and clock values of the behaviour's scope
ScopeSessions == IF scope = "round" THEN 1..MaxRoundSessions ELSE Sessions
ScopeTokens == IF scope = "round" THEN MaxRoundTokens ELSE MaxTokens
ScopePatches == IF scope = "round" THEN Patches ELSE {}
ScopeTimes == IF scope = "round" THEN Times ELSE {}

\* a session identifier the server generates: one it has never seen
FreshSession == Min(ScopeSessions \ seen)

NewParticipant(admin, voted, c) ==
  [isAdmin |-> admin, isConnected |-> TRUE, hasVoted |-> voted, socketId |-> c]

\* room.participants.set(sessionId, participant)
SetParticipant(room, s, p) ==
  [room EXCEPT !.participants = Put(@, s, p),
               !.order = IF s \in DOMAIN room.participants THEN @ ELSE Append(@, s)]

\* room.participants.delete / room.votes.delete for each session of K
DeleteParticipants(room, K) ==
  [room EXCEPT !.participants = Drop(@, K), !.order = Without(@, K)]

DeleteVotes(room, K) == [room EXCEPT !.votes = Drop(@, K)]

PublicParticipant(s, p) ==
  [sessionId |-> s, isAdmin |-> p.isAdmin, isConnected |-> p.isConnected,
   hasVoted |-> p.hasVoted]

\* no createRoom / createRoomWithId call is in progress
NoCall == [op |-> "none", id |-> 0, sessionId |-> 0, at |-> "idle"]

Init ==
  /\ variant \in {"sync", "async"}
  /\ scope \in {"members", "round"}
  /\ rooms = <<>>
  /\ usedIds = {}
  /\ socketToRoom = <<>>
  /\ joined = [c \in Conns |-> {}]
  /\ status = [c \in Conns |-> "open"]
  /\ nextToken = 1
  /\ seen = {}
  /\ timers = [r \in RoomIds |-> 0]
  /\ updates = 0
  /\ calls = [c \in Conns |-> NoCall]
  /\ out = <<>>
  /\ ev = NoEvent

\* the part of create-room and join-as-admin after the room is chosen
AdmitAdmin(c, id, room, sessionId, type, reqRoom) ==
  LET joinedRoom == SetParticipant(room, sessionId, NewParticipant(TRUE, FALSE, c))
  IN /\ rooms' = Put(rooms, id, saveRoom(joinedRoom))
     /\ socketToRoom' = Put(socketToRoom, c, [roomId |-> id, sessionId |-> sessionId])
     /\ joined' = [joined EXCEPT ![c] = @ \cup {id}]
     /\ seen' = seen \cup {sessionId}
     /\ nextToken' = nextToken + 1
     /\ Handle(Event(type, c, reqRoom, sessionId, NoToken),
               << Msg(ToSocket(c), "callback",
                      [success |-> TRUE, roomId |-> id,
                       adminToken |-> joinedRoom.adminToken, sessionId |-> sessionId]),
                  Msg(ToSocket(c), "room-state", buildRoomState(id, joinedRoom)) >>
               \o (IF type = "join-as-admin"
                   THEN << Msg(ToOthers(c, id), "participant-joined",
                               PublicParticipant(sessionId, joinedRoom.participants[sessionId])) >>
                   ELSE <<>>))
     /\ UNCHANGED <<variant, scope, calls, usedIds, status, timers, updates>>

\* createRoom draws random identifiers until one is available; identifiers are
\* interchangeable, so the model takes the least available one
CanCreate == \E id \in RoomIds : isRoomIdAvailable(id)
NewRoomId == Min({id \in RoomIds : isRoomIdAvailable(id)})

CreateRoom(c) ==
  /\ CanSend(c)
  /\ seen # ScopeSessions
  /\ nextToken <= ScopeTokens
  /\ CanCreate
  /\ AdmitAdmin(c, NewRoomId, NewRoom(nextToken, FreshSession), FreshSession,
                "create-room", 0)

\* room.adminToken = randomBytes(16); room.adminSessionId = sessionId
TakeOver(room, token, sessionId) ==
  [room EXCEPT !.adminToken = token, !.adminSessionId = sessionId]

\* variation of AdminRoomId that always lands in the requested identifier
AdminRoomIdAsRequested(r) == r

\* the room join-as-admin lands in: the requested one (taken over, or created
\* with the requested identifier), else a room with a new identifier
AdminRoomId(r) ==
  IF (r \in DOMAIN rooms /\ ~roomHasAdmin(r)) \/ isRoomIdAvailable(r)
  THEN r ELSE NewRoomId

JoinAsAdmin(c, r) ==
  /\ CanSend(c)
  /\ seen # ScopeSessions
  /\ nextToken <= ScopeTokens
  /\ AdminRoomId(r) = r \/ CanCreate
  /\ AdmitAdmin(c, AdminRoomId(r),
                IF r \in DOMAIN rooms /\ ~roomHasAdmin(r)
                THEN TakeOver(rooms[r], nextToken, FreshSession)
                ELSE NewRoom(nextToken, FreshSession),
                FreshSession, "join-as-admin", r)

\* variation of Reply that creates a record for a missing room it is asked about
ReplyAndCreate(e, msgs) ==
  /\ Handle(e, msgs)
  /\ rooms' = IF e.room \in RoomIds \ DOMAIN rooms
              THEN Put(rooms, e.room, NewRoom(NoToken, 0))
              ELSE rooms
  /\ UNCHANGED <<variant, scope, calls, usedIds, socketToRoom, joined, status, nextToken,
                 seen, timers, updates>>

\* a handler that only emits
Reply(e, msgs) ==
  /\ Handle(e, msgs)
  /\ UNCHANGED <<variant, scope, calls, rooms, usedIds, socketToRoom, joined, status, nextToken,
                 seen, timers, updates>>

Error(c, message) == Msg(ToSocket(c), "error", message)

CheckRoom(c, r) ==
  /\ CanSend(c)
  /\ Handle(Event("check-room", c, r, 0, NoToken),
            << Msg(ToSocket(c), "room-check-result",
                   [exists |-> r \in DOMAIN rooms, hasAdmin |-> roomHasAdmin(r)]) >>)
  /\ joined' = IF variant = "async" /\ r \in DOMAIN rooms
               THEN [joined EXCEPT ![c] = @ \cup {r}]
               ELSE joined
  /\ UNCHANGED <<variant, scope, calls, rooms, usedIds, socketToRoom, status, nextToken, seen,
                 timers, updates>>

\* the disconnected participants other than sessionId
StaleSessions(room, sessionId) ==
  {x \in DOMAIN room.participants :
     ~room.participants[x].isConnected /\ x # sessionId}

\* "Clean up disconnected participants": rows and votes
CleanUp(room, sessionId) ==
  DeleteVotes(DeleteParticipants(room, StaleSessions(room, sessionId)),
              StaleSessions(room, sessionId))

\* one participant-left per removed session, in the Map's order
LeftMsgs(to, room, K) ==
  LET gone == SelectSeq(room.order, LAMBDA x : x \in K)
  IN [i \in 1..Len(gone) |-> Msg(to, "participant-left", gone[i])]

\* whether a reconnecting admin triggers the clean-up: the sync revision
\* requires a pending grace timer handle, the async one does not
CleanUpDue(room) == variant = "async" \/ room.adminDisconnectTimer

\* clearTimeout(room.adminDisconnectTimer)
ClearTimer(r, due) ==
  timers' = IF due /\ variant = "sync" THEN [timers EXCEPT ![r] = @ - 1] ELSE timers

\* join-room, "if (existing)": the room after a reconnection by session identifier
RejoinRoom(room, c, s) ==
  LET back == [room EXCEPT !.participants[s].socketId = c,
                           !.participants[s].isConnected = TRUE]
  IN IF room.participants[s].isAdmin /\ CleanUpDue(room)
     THEN CleanUp([back EXCEPT !.adminDisconnectTimer = FALSE], s)
     ELSE back

Rejoin(e, c, r, s) ==
  LET room == rooms[r]
      back == [room EXCEPT !.participants[s].socketId = c,
                           !.participants[s].isConnected = TRUE]
      due == room.participants[s].isAdmin /\ CleanUpDue(room)
  IN /\ rooms' = Put(rooms, r, saveRoom(RejoinRoom(room, c, s)))
     /\ ClearTimer(r, due)
     /\ Handle(e, (IF due
                   THEN LeftMsgs(ToRoom(r), back, StaleSessions(back, s))
                        \o << Msg(ToRoom(r), "admin-reconnected", TRUE) >>
                   ELSE <<>>)
                  \o << Msg(ToSocket(c), "room-state",
                            buildRoomState(r, RejoinRoom(room, c, s))) >>)

\* Array.from(room.participants.values()).find((p) => p.isAdmin), 0 for none
CurrentAdmin(room) ==
  LET admins == SelectSeq(room.order, LAMBDA x : room.participants[x].isAdmin)
  IN IF admins = <<>> THEN 0 ELSE Head(admins)

\* the second isAdminReconnect of join-room (new-session branch)
IsAdminReconnectNew(room, adminToken) ==
  /\ adminToken # NoToken
  /\ room.adminToken = adminToken
  /\ (CurrentAdmin(room) = 0 \/ ~room.participants[CurrentAdmin(room)].isConnected)

\* variation of JoinNewRoom whose new row never shows a vote
JoinNewRoomUnvoted(room, c, s, adminToken) ==
  LET asAdmin == IsAdminReconnectNew(room, adminToken)
      old == CurrentAdmin(room)
      added == SetParticipant(room, s, NewParticipant(asAdmin, FALSE, c))
      dropped == DeleteParticipants(added, {old})
      cleaned == IF CleanUpDue(room)
                 THEN CleanUp([dropped EXCEPT !.adminDisconnectTimer = FALSE], s)
                 ELSE dropped
  IN IF asAdmin /\ old # 0 THEN [cleaned EXCEPT !.adminSessionId = s] ELSE added

\* join-room, new-session branch: the room after the handler's mutations
JoinNewRoom(room, c, s, adminToken) ==
  LET asAdmin == IsAdminReconnectNew(room, adminToken)
      old == CurrentAdmin(room)
      added == SetParticipant(room, s, NewParticipant(asAdmin, s \in DOMAIN room.votes, c))
      dropped == DeleteParticipants(added, {old})
      cleaned == IF CleanUpDue(room)
                 THEN CleanUp([dropped EXCEPT !.adminDisconnectTimer = FALSE], s)
                 ELSE dropped
  IN IF asAdmin /\ old # 0 THEN [cleaned EXCEPT !.adminSessionId = s] ELSE added

JoinNew(e, c, r, s, adminToken) ==
  LET room == rooms[r]
      asAdmin == IsAdminReconnectNew(room, adminToken)
      old == CurrentAdmin(room)
      replace == asAdmin /\ old # 0
      due == replace /\ CleanUpDue(room)
      added == SetParticipant(room, s, NewParticipant(asAdmin, s \in DOMAIN room.votes, c))
      dropped == DeleteParticipants(added, {old})
      after == JoinNewRoom(room, c, s, adminToken)
  IN /\ rooms' = Put(rooms, r, saveRoom(after))
     /\ ClearTimer(r, due)
     /\ Handle(e, (IF due
                   THEN LeftMsgs(ToOthers(c, r), dropped, StaleSessions(dropped, s))
                        \o << Msg(ToRoom(r), "admin-reconnected", TRUE) >>
                   ELSE <<>>)
                  \o (IF replace
                      THEN << Msg(ToOthers(c, r), "participant-left", old) >>
                      ELSE <<>>)
                  \o << Msg(ToOthers(c, r), "participant-joined",
                            PublicParticipant(s, added.participants[s])),
                        Msg(ToSocket(c), "room-state", buildRoomState(r, after)) >>)

\* variation of RoomFull that compares with > in place of >=
RoomFullOffByOne(room, s) ==
  s \notin DOMAIN room.participants
  /\ Cardinality(DOMAIN room.participants) > MAX_PARTICIPANTS

\* "Reject new participants if room is full (reconnections are always allowed)"
RoomFull(room, s) ==
  s \notin DOMAIN room.participants
  /\ Cardinality(DOMAIN room.participants) >= MAX_PARTICIPANTS

\* variation of WaitingForAdmin that admits joins while the admin is away
WaitingForAdminSkipped(r, adminToken) == FALSE

\* "Reject participants if room has no admin (unless this IS the admin)"
WaitingForAdmin(r, adminToken) ==
  ~isAdmin(rooms[r], adminToken) /\ ~roomHasAdmin(r)

JoinRoom(c, r, s, adminToken) ==
  LET e == Event("join-room", c, r, s, adminToken)
  IN /\ CanSend(c)
     /\ IF r \notin DOMAIN rooms
        THEN Reply(e, << Error(c, "Room not found") >>)
        ELSE IF WaitingForAdmin(r, adminToken)
        THEN Reply(e, << Error(c, "Waiting for admin") >>)
        ELSE IF RoomFull(rooms[r], s)
        THEN Reply(e, << Error(c, "Room is full (max 10 participants)") >>)
        ELSE /\ IF s \in DOMAIN rooms[r].participants
                THEN Rejoin(e, c, r, s)
                ELSE JoinNew(e, c, r, s, adminToken)
             /\ socketToRoom' = Put(socketToRoom, c, [roomId |-> r, sessionId |-> s])
             /\ joined' = [joined EXCEPT ![c] = @ \cup {r}]
             /\ seen' = seen \cup {s}
             /\ UNCHANGED <<variant, scope, calls, usedIds, status, nextToken, updates>>

\* a handler that changes room r and emits
Mutate(e, r, room, msgs) ==
  /\ rooms' = Put(rooms, r, saveRoom(room))
  /\ Handle(e, msgs)
  /\ UNCHANGED <<variant, scope, calls, usedIds, socketToRoom, joined, status, nextToken, seen,
                 timers, updates>>

\* variation of Vote that accepts votes after the reveal
VoteAfterReveal(c, r, s, value) ==
  LET e == Event("vote", c, r, s, NoToken)
  IN /\ CanSend(c)
     /\ IF r \notin DOMAIN rooms \/ s \notin DOMAIN rooms[r].participants
        THEN Reply(e, <<>>)
        ELSE Mutate(e, r, [rooms[r] EXCEPT !.votes = Put(@, s, value),
                                           !.participants[s].hasVoted = TRUE],
                    << Msg(ToRoom(r), "vote-cast",
                           [sessionId |-> s, hasVoted |-> TRUE]) >>)

Vote(c, r, s, value) ==
  LET e == Event("vote", c, r, s, NoToken)
  IN /\ CanSend(c)
     /\ IF r \notin DOMAIN rooms \/ rooms[r].isRevealed
           \/ s \notin DOMAIN rooms[r].participants
        THEN Reply(e, <<>>)
        ELSE Mutate(e, r, [rooms[r] EXCEPT !.votes = Put(@, s, value),
                                           !.participants[s].hasVoted = TRUE],
                    << Msg(ToRoom(r), "vote-cast",
                           [sessionId |-> s, hasVoted |-> TRUE]) >>)

\* variation of CanReveal that lets every caller reveal
CanRevealAnyone(room, adminToken) == TRUE

CanReveal(room, adminToken) ==
  isAdmin(room, adminToken) \/ room.settings.allowOthersToShowEstimates

\* variation of Reveal that empties the votes it has broadcast
RevealAndClear(c, r, adminToken) ==
  LET e == Event("reveal", c, r, 0, adminToken)
  IN /\ CanSend(c)
     /\ IF r \notin DOMAIN rooms
        THEN Reply(e, <<>>)
        ELSE IF ~CanReveal(rooms[r], adminToken)
        THEN Reply(e, << Error(c, "Not authorized") >>)
        ELSE Mutate(e, r, [rooms[r] EXCEPT !.isRevealed = TRUE, !.votes = <<>>],
                    << Msg(ToRoom(r), "votes-revealed", rooms[r].votes) >>)

Reveal(c, r, adminToken) ==
  LET e == Event("reveal", c, r, 0, adminToken)
  IN /\ CanSend(c)
     /\ IF r \notin DOMAIN rooms
        THEN Reply(e, <<>>)
        ELSE IF ~CanReveal(rooms[r], adminToken)
        THEN Reply(e, << Error(c, "Not authorized") >>)
        ELSE Mutate(e, r, [rooms[r] EXCEPT !.isRevealed = TRUE],
                    << Msg(ToRoom(r), "votes-revealed", rooms[r].votes) >>)

CanReset(room, adminToken) ==
  isAdmin(room, adminToken) \/ room.settings.allowOthersToDeleteEstimates

ClearHasVoted(participants) ==
  [s \in DOMAIN participants |-> [participants[s] EXCEPT !.hasVoted = FALSE]]

\* variation of ResetRoom that does not stop the timer
ResetRoomKeepsTimer(room) ==
  [room EXCEPT !.votes = <<>>, !.isRevealed = FALSE, !.participants = ClearHasVoted(@)]

ResetRoom(room) ==
  [room EXCEPT !.votes = <<>>, !.isRevealed = FALSE, !.timerStartedAt = NoTime,
               !.participants = ClearHasVoted(@)]

Reset(c, r, adminToken) ==
  LET e == Event("reset", c, r, 0, adminToken)
  IN /\ CanSend(c)
     /\ IF r \notin DOMAIN rooms
        THEN Reply(e, <<>>)
        ELSE IF ~CanReset(rooms[r], adminToken)
        THEN Reply(e, << Error(c, "Not authorized") >>)
        ELSE Mutate(e, r, ResetRoom(rooms[r]),
                    << Msg(ToRoom(r), "votes-reset", TRUE) >>)

\* variation of HasAdminToken that only looks the room up
HasAdminTokenUnchecked(r, adminToken) == r \in DOMAIN rooms

\* if (!room || !isAdmin(room, token))
HasAdminToken(r, adminToken) ==
  r \in DOMAIN rooms /\ isAdmin(rooms[r], adminToken)

\* variation of OptionsChanged that never sees a change of the options
OptionsChangedIgnored(room, patch) == FALSE

OptionsChanged(room, patch) ==
  "estimateOptions" \in DOMAIN patch
  /\ patch.estimateOptions # room.settings.estimateOptions

ApplySettings(room, patch) ==
  LET cleared == IF OptionsChanged(room, patch)
                 THEN [room EXCEPT !.votes = <<>>, !.isRevealed = FALSE,
                                   !.participants = ClearHasVoted(@)]
                 ELSE room
  IN [cleared EXCEPT !.settings = MergeSettings(@, patch)]

UpdateSettings(c, r, adminToken, patch) ==
  LET e == Event("update-settings", c, r, 0, adminToken)
  IN /\ CanSend(c)
     /\ IF ~HasAdminToken(r, adminToken)
        THEN Reply(e, << Error(c, "Not authorized") >>)
        ELSE /\ updates < MaxSettingsUpdates
             /\ updates' = updates + 1
             /\ rooms' = Put(rooms, r, saveRoom(ApplySettings(rooms[r], patch)))
             /\ Handle(e, << Msg(ToRoom(r), "settings-updated",
                                 ApplySettings(rooms[r], patch).settings) >>
                          \o (IF "estimateOptions" \in DOMAIN patch
                              THEN << Msg(ToRoom(r), "votes-reset", TRUE) >>
                              ELSE <<>>))
             /\ UNCHANGED <<variant, scope, calls, usedIds, socketToRoom, joined, status, nextToken,
                            seen, timers>>

\* variation of IsOwnEstimate that compares the registered room, not the session
IsOwnEstimateByRoom(c, target) ==
  c \in DOMAIN socketToRoom /\ socketToRoom[c].roomId = target

\* getSocketInfo(socket.id)?.sessionId === targetSessionId
IsOwnEstimate(c, target) ==
  c \in DOMAIN socketToRoom /\ socketToRoom[c].sessionId = target

CanDeleteEstimate(c, room, target, adminToken) ==
  \/ IsOwnEstimate(c, target)
  \/ isAdmin(room, adminToken)
  \/ room.settings.allowOthersToDeleteEstimates

DeleteEstimateRoom(room, target) ==
  [room EXCEPT !.votes = Drop(@, {target}),
               !.participants = [s \in DOMAIN @ |->
                                   IF s = target THEN [@[s] EXCEPT !.hasVoted = FALSE]
                                   ELSE @[s]]]

DeleteEstimate(c, r, target, adminToken) ==
  LET e == Event("delete-estimate", c, r, target, adminToken)
  IN /\ CanSend(c)
     /\ IF r \notin DOMAIN rooms
        THEN Reply(e, <<>>)
        ELSE IF ~CanDeleteEstimate(c, rooms[r], target, adminToken)
        THEN Reply(e, << Error(c, "Not authorized") >>)
        ELSE Mutate(e, r, DeleteEstimateRoom(rooms[r], target),
                    << Msg(ToRoom(r), "vote-cast",
                           [sessionId |-> target, hasVoted |-> FALSE]) >>)

CanClearUser(room, adminToken) ==
  isAdmin(room, adminToken) \/ room.settings.allowOthersToClearUsers

ClearUser(c, r, target, adminToken) ==
  LET e == Event("clear-user", c, r, target, adminToken)
  IN /\ CanSend(c)
     /\ IF r \notin DOMAIN rooms
        THEN Reply(e, <<>>)
        ELSE IF ~CanClearUser(rooms[r], adminToken)
        THEN Reply(e, << Error(c, "Not authorized") >>)
        ELSE IF target \in DOMAIN rooms[r].participants
                /\ rooms[r].participants[target].isAdmin
        THEN Reply(e, << Error(c, "Cannot remove admin") >>)
        ELSE Mutate(e, r, DeleteVotes(DeleteParticipants(rooms[r], {target}), {target}),
                    << Msg(ToRoom(r), "participant-left", target) >>)

\* variation of NonAdmins that selects every participant
NonAdminsAndAdmins(room) == DOMAIN room.participants

NonAdmins(room) ==
  {s \in DOMAIN room.participants : ~room.participants[s].isAdmin}

ClearAllParticipants(c, r, adminToken) ==
  LET e == Event("clear-all-participants", c, r, 0, adminToken)
  IN /\ CanSend(c)
     /\ IF ~HasAdminToken(r, adminToken)
        THEN Reply(e, << Error(c, "Not authorized") >>)
        ELSE Mutate(e, r,
                    DeleteVotes(DeleteParticipants(rooms[r], NonAdmins(rooms[r])),
                                NonAdmins(rooms[r])),
                    LeftMsgs(ToRoom(r), rooms[r], NonAdmins(rooms[r])))

\* the reply of start-timer and stop-timer to a caller without the admin token:
\* "if (!room || !isAdmin(room, token)) return;"
TimerRefusal(c) == <<>>

StartTimer(c, r, adminToken, now) ==
  LET e == Event("start-timer", c, r, 0, adminToken)
  IN /\ CanSend(c)
     /\ IF ~HasAdminToken(r, adminToken)
        THEN Reply(e, TimerRefusal(c))
        ELSE Mutate(e, r, [rooms[r] EXCEPT !.timerStartedAt = now],
                    << Msg(ToRoom(r), "timer-started", now) >>)

StopTimer(c, r, adminToken) ==
  LET e == Event("stop-timer", c, r, 0, adminToken)
  IN /\ CanSend(c)
     /\ IF ~HasAdminToken(r, adminToken)
        THEN Reply(e, TimerRefusal(c))
        ELSE Mutate(e, r, [rooms[r] EXCEPT !.timerStartedAt = NoTime],
                    << Msg(ToRoom(r), "timer-stopped", TRUE) >>)

\* the registered participant row a disconnecting socket belongs to, if any
DisconnectTarget(c) ==
  /\ c \in DOMAIN socketToRoom
  /\ socketToRoom[c].roomId \in DOMAIN rooms
  /\ socketToRoom[c].sessionId \in DOMAIN rooms[socketToRoom[c].roomId].participants

\* the grace timer exists in the sync revision only
StartsGraceTimer(room, s) == variant = "sync" /\ room.participants[s].isAdmin

\* variation of DisconnectRoom that also forgets the session's vote
DisconnectRoomForgetsVote(room, s) ==
  [room EXCEPT !.participants[s].isConnected = FALSE,
               !.participants[s].socketId = NoSocket,
               !.participants[s].hasVoted = FALSE,
               !.votes = Drop(@, {s}),
               !.adminDisconnectTimer = @ \/ StartsGraceTimer(room, s)]

\* the room after the disconnect of the socket registered for session s
DisconnectRoom(room, s) ==
  [room EXCEPT !.participants[s].isConnected = FALSE,
               !.participants[s].socketId = NoSocket,
               !.adminDisconnectTimer = @ \/ StartsGraceTimer(room, s)]

Disconnect(c) ==
  LET e == Event("disconnect", c, 0, 0, NoToken)
  IN /\ CanSend(c)
     /\ status' = [status EXCEPT ![c] = "closed"]
     /\ joined' = [joined EXCEPT ![c] = {}]
     /\ socketToRoom' = Drop(socketToRoom, {c})
     /\ IF ~DisconnectTarget(c)
        THEN /\ Handle(e, <<>>)
             /\ UNCHANGED <<rooms, timers>>
        ELSE LET r == socketToRoom[c].roomId
                 s == socketToRoom[c].sessionId
                 gone == DisconnectRoom(rooms[r], s)
                 to == ToRoomLeft(c, r)
             IN /\ rooms' = Put(rooms, r, saveRoom(gone))
                /\ timers' = IF StartsGraceTimer(rooms[r], s)
                             THEN [timers EXCEPT ![r] = @ + 1]
                             ELSE timers
                /\ Handle(e, << Msg(to, "participant-updated",
                                    PublicParticipant(s, gone.participants[s])) >>
                             \o (IF rooms[r].participants[s].isAdmin
                                 THEN << Msg(to, "admin-disconnected", TRUE) >>
                                 ELSE <<>>))
     /\ UNCHANGED <<variant, scope, calls, usedIds, nextToken, seen, updates>>

\* deleteRoom: remove the room record, then write the usedId: marker
deleteRoom(r) ==
  /\ rooms' = Drop(rooms, {r})
  /\ usedIds' = usedIds \cup {r}

\* the setTimeout callback of disconnect: close the room
GraceTimeout(r) ==
  /\ ev.type = "none"
  /\ timers[r] > 0
  /\ timers' = [timers EXCEPT ![r] = @ - 1]
  /\ Handle(Event("grace-timeout", 0, r, 0, NoToken),
            << Msg(ToRoom(r), "room-closed", TRUE) >>)
  /\ deleteRoom(r)
  /\ UNCHANGED <<variant, scope, calls, socketToRoom, joined, status, nextToken, seen, updates>>

\* the usedId: marker expires (48 h, long after any 60 s grace timer)
ExpireUsedId(r) ==
  /\ ev.type = "none"
  /\ r \in usedIds
  /\ timers[r] = 0
  /\ usedIds' = usedIds \ {r}
  /\ Handle(Event("expire-usedId", 0, r, 0, NoToken), <<>>)
  /\ UNCHANGED <<variant, scope, calls, rooms, socketToRoom, joined, status, nextToken, seen,
                 timers, updates>>

\* the session identifiers a client may send: those in use and one unused
ClientSessions == seen \cup (IF seen = ScopeSessions THEN {} ELSE {FreshSession})

\* the admin tokens a client may send: none, or any generated so far
ClientTokens == 0..(nextToken - 1)

Next ==
  \/ \E c \in Conns : CreateRoom(c)
  \/ \E c \in Conns, r \in TargetRooms : JoinAsAdmin(c, r)
  \/ \E c \in Conns, r \in TargetRooms : CheckRoom(c, r)
  \/ \E c \in Conns, r \in TargetRooms, s \in ClientSessions, tok \in ClientTokens :
       JoinRoom(c, r, s, tok)
  \/ \E c \in Conns, r \in TargetRooms, s \in ClientSessions, v \in Values :
       Vote(c, r, s, v)
  \/ \E c \in Conns, r \in TargetRooms, tok \in ClientTokens : Reveal(c, r, tok)
  \/ \E c \in Conns, r \in TargetRooms, tok \in ClientTokens : Reset(c, r, tok)
  \/ \E c \in Conns, r \in TargetRooms, tok \in ClientTokens, patch \in ScopePatches :
       UpdateSettings(c, r, tok, patch)
  \/ \E c \in Conns, r \in TargetRooms, s \in ClientSessions, tok \in ClientTokens :
       DeleteEstimate(c, r, s, tok)
  \/ \E c \in Conns, r \in TargetRooms, s \in ClientSessions, tok \in ClientTokens :
       ClearUser(c, r, s, tok)
  \/ \E c \in Conns, r \in TargetRooms, tok \in ClientTokens :
       ClearAllParticipants(c, r, tok)
  \/ \E c \in Conns, r \in TargetRooms, tok \in ClientTokens, now \in ScopeTimes :
       StartTimer(c, r, tok, now)
  \/ \E c \in Conns, r \in TargetRooms, tok \in ClientTokens : StopTimer(c, r, tok)
  \/ \E c \in Conns : Disconnect(c)
  \/ \E r \in RoomIds : GraceTimeout(r)
  \/ \E r \in RoomIds : ExpireUsedId(r)

Spec == Init /\ [][Next]_vars
\* ------------------------------------------------- the store, await by await
\* createRoom and createRoomWithId of the Redis store suspend at
\* "await isRoomIdAvailable(id)" and at "await redis.set(...)": a call is one
\* step up to its availability check and one step for its write, and the calls
\* made on behalf of different connections interleave.
MaxStoreTokens == 4

StoreIdle(c) == ev.type = "none" /\ calls[c].at = "idle"

StoreFrame == UNCHANGED <<variant, scope, socketToRoom, joined, status, timers, updates,
                          out, ev>>

\* createRoomWithId up to its check: "if (!(await isRoomIdAvailable(roomId)))
\* return undefined", else the room object is built (generateToken)
CreateRoomWithIdCheck(c, roomId) ==
  /\ StoreIdle(c)
  /\ seen # Sessions
  /\ nextToken <= MaxStoreTokens
  /\ IF isRoomIdAvailable(roomId)
     THEN /\ calls' = [calls EXCEPT ![c] = [op |-> "createRoomWithId", id |-> roomId,
                                            sessionId |-> Min(Sessions \ seen),
                                            at |-> "checked"]]
          /\ seen' = seen \cup {Min(Sessions \ seen)}
     ELSE /\ calls' = [calls EXCEPT ![c] = [op |-> "createRoomWithId", id |-> 0,
                                            sessionId |-> 0, at |-> "returned"]]
          /\ seen' = seen
  /\ UNCHANGED <<rooms, usedIds, nextToken>>
  /\ StoreFrame

\* createRoom up to the check that ends its loop: "do { id = generateRoomId() }
\* while (!(await isRoomIdAvailable(id)))", for any identifier the generator draws
CreateRoomCheck(c, id) ==
  /\ StoreIdle(c)
  /\ seen # Sessions
  /\ nextToken <= MaxStoreTokens
  /\ isRoomIdAvailable(id)
  /\ calls' = [calls EXCEPT ![c] = [op |-> "createRoom", id |-> id,
                                    sessionId |-> Min(Sessions \ seen),
                                    at |-> "checked"]]
  /\ seen' = seen \cup {Min(Sessions \ seen)}
  /\ UNCHANGED <<rooms, usedIds, nextToken>>
  /\ StoreFrame

\* "await redis.set(`room:${id}`, serializeRoom(room), "EX", ROOM_TTL_SECONDS)"
\* and the return of the room
CreateRoomWrite(c) ==
  /\ ev.type = "none"
  /\ calls[c].at = "checked"
  /\ rooms' = Put(rooms, calls[c].id,
                  deserializeRoom(serializeRoom(NewRoom(nextToken, calls[c].sessionId))))
  /\ nextToken' = nextToken + 1
  /\ calls' = [calls EXCEPT ![c].at = "returned"]
  /\ UNCHANGED <<usedIds, seen>>
  /\ StoreFrame

\* the caller takes the result of its call
CreateRoomReturn(c) ==
  /\ ev.type = "none"
  /\ calls[c].at = "returned"
  /\ calls' = [calls EXCEPT ![c] = NoCall]
  /\ UNCHANGED <<rooms, usedIds, nextToken, seen>>
  /\ StoreFrame

\* deleteRoom, called for a live room
DeleteLiveRoom(r) ==
  /\ ev.type = "none"
  /\ r \in DOMAIN rooms
  /\ deleteRoom(r)
  /\ UNCHANGED <<calls, nextToken, seen>>
  /\ StoreFrame

\* the usedId: marker expires
ExpireMarker(r) ==
  /\ ev.type = "none"
  /\ r \in usedIds
  /\ usedIds' = usedIds \ {r}
  /\ UNCHANGED <<calls, rooms, nextToken, seen>>
  /\ StoreFrame

InitStore == Init /\ variant = "async" /\ scope = "members"

NextStore ==
  \/ \E c \in Conns, id \in RoomIds : CreateRoomWithIdCheck(c, id)
  \/ \E c \in Conns, id \in RoomIds : CreateRoomCheck(c, id)
  \/ \E c \in Conns : CreateRoomWrite(c)
  \/ \E c \in Conns : CreateRoomReturn(c)
  \/ \E r \in RoomIds : DeleteLiveRoom(r)
  \/ \E r \in RoomIds : ExpireMarker(r)

SpecStore == InitStore /\ [][NextStore]_vars

\* ---------------------------------------------------------------- claims

\* C1: in every reachable state the session identifiers that hold a vote are
\* session identifiers of participant rows of the same room.
VotesHaveParticipants ==
  \A r \in DOMAIN rooms : DOMAIN rooms[r].votes \subseteq DOMAIN rooms[r].participants

\* C2: in every reachable state a room has at most one participant row that is
\* both an admin row and connected.
AtMostOneConnectedAdmin ==
  \A r \in DOMAIN rooms :
    Cardinality({s \in DOMAIN rooms[r].participants :
                   rooms[r].participants[s].isAdmin
                   /\ rooms[r].participants[s].isConnected}) <= 1

\* the emitted events of the recorded handler run
Emitted == {out[i] : i \in DOMAIN out}

\* C3: while a room has isRevealed = false no emitted event carries a vote
\* value: a room-state snapshot of an unrevealed room has an empty votes list,
\* vote-cast carries only sessionId and hasVoted, and votes-revealed is emitted
\* only by a reveal that leaves the room revealed.
NoVoteValueWhileHidden ==
  \A m \in Emitted :
    /\ m.ev = "room-state" =>
         /\ m.data.isRevealed = rooms[m.data.roomId].isRevealed
         /\ (~m.data.isRevealed => m.data.votes = <<>>)
    /\ m.ev = "vote-cast" => DOMAIN m.data = {"sessionId", "hasVoted"}
    /\ m.ev = "votes-revealed" =>
         ev.type = "reveal" /\ ev.room \in DOMAIN rooms /\ rooms[ev.room].isRevealed
    /\ m.ev \in {"room-state", "vote-cast", "votes-revealed", "callback", "error",
                 "participant-joined", "participant-left", "participant-updated",
                 "votes-reset", "settings-updated", "timer-started", "timer-stopped",
                 "admin-disconnected", "admin-reconnected", "room-closed",
                 "room-check-result"}

\* C3 witness: a snapshot of an unrevealed room that holds a vote is emitted
HiddenVoteSnapshot ==
  \E m \in Emitted :
    /\ m.ev = "room-state"
    /\ ~rooms[m.data.roomId].isRevealed
    /\ rooms[m.data.roomId].votes # <<>>
    /\ m.to # {}

\* the caller presents the room's adminToken verbatim
PresentsToken(room, tok) == tok # NoToken /\ tok = room.adminToken

\* the events that require authority
Guarded ==
  {"reveal", "reset", "update-settings", "delete-estimate", "clear-user",
   "clear-all-participants", "start-timer", "stop-timer"}

\* the authority event e requires, as the specification states it: the
\* adminToken, or the delegation flag of the event, or (delete-estimate) the
\* caller's own estimate
Authorised(e) ==
  LET room == rooms[e.room]
  IN \/ PresentsToken(room, e.token)
     \/ e.type = "reveal" /\ room.settings.allowOthersToShowEstimates
     \/ e.type \in {"reset", "delete-estimate"}
        /\ room.settings.allowOthersToDeleteEstimates
     \/ e.type = "clear-user" /\ room.settings.allowOthersToClearUsers
     \/ e.type = "delete-estimate"
        /\ e.conn \in DOMAIN socketToRoom
        /\ socketToRoom[e.conn].sessionId = e.sid

\* the recorded handler run processes a guarded event, addressed to a live room,
\* whose caller lacks the authority
Refused == ev'.type \in Guarded /\ ev'.room \in DOMAIN rooms /\ ~Authorised(ev')

\* the rooms that live through a step
Kept == DOMAIN rooms \cap DOMAIN rooms'

\* C4: a guarded event sent without the authority it requires leaves the room
\* records unchanged and emits nothing to the room: whatever is emitted is
\* addressed to the calling socket alone.
UnauthorisedChangesNothing ==
  [][Refused =>
       /\ rooms' = rooms
       /\ \A i \in DOMAIN out' :
            out'[i].via = "socket" /\ out'[i].to = {ev'.conn}]_vars

\* C4 witness: a guarded event was refused in a room that holds a vote and whose
\* channel has a subscriber other than the caller
RefusedInBusyRoom ==
  /\ ev.type \in Guarded
  /\ ev.room \in DOMAIN rooms
  /\ ~Authorised(ev)
  /\ rooms[ev.room].votes # <<>>
  /\ Channel(ev.room) \ {ev.conn} # {}

\* C5: every guarded event sent without the authority it requires makes the
\* handler emit an authorization-failure error to the calling socket, and
\* nothing to any other connection.
UnauthorisedGetsError ==
  [][Refused =>
       /\ \E i \in DOMAIN out' :
            /\ out'[i].ev = "error"
            /\ out'[i].data = "Not authorized"
            /\ out'[i].to = {ev'.conn}
       /\ \A i \in DOMAIN out' : out'[i].to \subseteq {ev'.conn}]_vars

\* C6: the settings of a room change only in a handler run of update-settings
\* for that room whose caller presents the room's adminToken.
SettingsOnlyByAdminToken ==
  [][ev'.type # "none" =>
       \A r \in Kept :
         rooms'[r].settings # rooms[r].settings =>
           /\ ev'.type = "update-settings"
           /\ ev'.room = r
           /\ PresentsToken(rooms[r], ev'.token)]_vars

\* C6 witness: update-settings with the adminToken has changed the settings
SettingsChanged ==
  /\ ev.type = "update-settings"
  /\ ev.room \in DOMAIN rooms
  /\ PresentsToken(rooms[ev.room], ev.token)
  /\ rooms[ev.room].settings # DEFAULT_SETTINGS

\* C7: timerStartedAt of a room changes only in a handler run of an event for
\* that room whose caller presents the room's adminToken.
TimerOnlyByAdminToken ==
  [][ev'.type # "none" =>
       \A r \in Kept :
         rooms'[r].timerStartedAt # rooms[r].timerStartedAt =>
           ev'.room = r /\ PresentsToken(rooms[r], ev'.token)]_vars

\* C8: a join-room that presents the room's adminToken is admitted: the session
\* is a participant afterwards and the caller receives room-state.
AdminTokenAlwaysAdmitted ==
  [][(/\ ev'.type = "join-room"
      /\ ev'.room \in DOMAIN rooms
      /\ PresentsToken(rooms[ev'.room], ev'.token)) =>
       /\ ev'.room \in DOMAIN rooms'
       /\ ev'.sid \in DOMAIN rooms'[ev'.room].participants
       /\ \E i \in DOMAIN out' :
            out'[i].ev = "room-state" /\ out'[i].to = {ev'.conn}]_vars

\* C9: the adminToken of a room keeps its value for as long as the room exists.
AdminTokenKeepsValue ==
  [][\A r \in Kept : rooms'[r].adminToken = rooms[r].adminToken]_vars

\* the number of participant rows of a room
Size(room) == Cardinality(DOMAIN room.participants)

\* a participant row that is an admin row and connected
HasConnectedAdmin(room) ==
  \E s \in DOMAIN room.participants :
    room.participants[s].isAdmin /\ room.participants[s].isConnected

\* the recorded handler run processes a join-room for a live room from a
\* session that is not a participant of it
NewcomerJoins ==
  /\ ev'.type = "join-room"
  /\ ev'.room \in DOMAIN rooms
  /\ ev'.sid \notin DOMAIN rooms[ev'.room].participants

\* join-room never raises the number of rows of a room above the cap
JoinKeepsCap ==
  ev'.type = "join-room" =>
    \A r \in Kept :
      Size(rooms'[r]) <= Size(rooms[r]) \/ Size(rooms'[r]) <= MAX_PARTICIPANTS

\* C10 as stated: a join-room from a session that is not a participant, to a room
\* that holds MAX_PARTICIPANTS rows, is answered with the room-full error and
\* leaves the rooms unchanged; join-room never raises a room above the cap.
FullRoomAnswersRoomFull ==
  [][/\ (NewcomerJoins /\ Size(rooms[ev'.room]) = MAX_PARTICIPANTS) =>
          /\ out' = << Error(ev'.conn, "Room is full (max 10 participants)") >>
          /\ rooms' = rooms
     /\ JoinKeepsCap]_vars

\* C10 amended: such a join-room is refused and leaves the rooms unchanged; the
\* error is "Waiting for admin" when the caller does not present the adminToken
\* and no admin is connected, and the room-full error otherwise; join-room never
\* raises a room above the cap.
FullRoomRefusesNewcomer ==
  [][/\ (NewcomerJoins /\ Size(rooms[ev'.room]) >= MAX_PARTICIPANTS) =>
          /\ out' =
               << [via |-> "socket", to |-> {ev'.conn}, ev |-> "error",
                   data |->
                     IF ~PresentsToken(rooms[ev'.room], ev'.token)
                        /\ ~HasConnectedAdmin(rooms[ev'.room])
                     THEN "Waiting for admin"
                     ELSE "Room is full (max 10 participants)"] >>
          /\ rooms' = rooms
     /\ JoinKeepsCap]_vars

\* C10 witness: a newcomer was refused by a full room with the room-full error
NewcomerRefusedByFullRoom ==
  /\ ev.type = "join-room"
  /\ ev.room \in DOMAIN rooms
  /\ ev.sid \notin DOMAIN rooms[ev.room].participants
  /\ Size(rooms[ev.room]) >= MAX_PARTICIPANTS
  /\ \E m \in Emitted : m.ev = "error" /\ m.data = "Room is full (max 10 participants)"

\* C11: in every reachable state a room holds at most MAX_PARTICIPANTS
\* participant rows.
RoomWithinCap ==
  \A r \in DOMAIN rooms : Size(rooms[r]) <= MAX_PARTICIPANTS

\* the session registered for the calling connection is the target of e
OwnTarget(e) ==
  e.conn \in DOMAIN socketToRoom /\ socketToRoom[e.conn].sessionId = e.sid

\* C12: a delete-estimate for a live room whose target is the session registered
\* for the calling connection is accepted whatever the token, the delegation
\* flags and isRevealed are: the target's vote is removed, its hasVoted is
\* cleared and vote-cast {target, hasVoted: false} goes to the room; with another
\* target, no matching token and allowOthersToDeleteEstimates false it is
\* refused with an error to the caller and the rooms are unchanged.
OwnEstimateAlwaysDeletable ==
  [][(ev'.type = "delete-estimate" /\ ev'.room \in DOMAIN rooms) =>
       LET r == ev'.room
           s == ev'.sid
       IN /\ OwnTarget(ev') =>
               /\ r \in DOMAIN rooms'
               /\ s \notin DOMAIN rooms'[r].votes
               /\ s \in DOMAIN rooms'[r].participants =>
                    ~rooms'[r].participants[s].hasVoted
               /\ rooms'[r].isRevealed = rooms[r].isRevealed
               /\ out' = << [via |-> "room", to |-> Channel(r), ev |-> "vote-cast",
                             data |-> [sessionId |-> s, hasVoted |-> FALSE]] >>
          /\ (/\ ~OwnTarget(ev')
              /\ ~PresentsToken(rooms[r], ev'.token)
              /\ ~rooms[r].settings.allowOthersToDeleteEstimates) =>
               /\ rooms' = rooms
               /\ out' = << [via |-> "socket", to |-> {ev'.conn}, ev |-> "error",
                             data |-> "Not authorized"] >>]_vars

\* C12 witness: in a revealed room with every delegation flag false, a
\* participant without the token has deleted its own estimate
OwnEstimateDeletedWhenRevealed ==
  /\ ev.type = "delete-estimate"
  /\ ev.room \in DOMAIN rooms
  /\ OwnTarget(ev)
  /\ ev.token = NoToken
  /\ rooms[ev.room].isRevealed
  /\ rooms[ev.room].settings = DEFAULT_SETTINGS
  /\ ev.sid \in DOMAIN rooms[ev.room].participants
  /\ ~rooms[ev.room].participants[ev.sid].isAdmin
  /\ rooms[ev.room].votes # <<>>
  /\ \E m \in Emitted : m.ev = "vote-cast" /\ m.data.hasVoted = FALSE

\* the room identifier the callback of the recorded handler run returns
ReturnedRoomId(msgs) ==
  LET acks == SelectSeq(msgs, LAMBDA m : m.ev = "callback")
  IN IF acks = <<>> THEN 0 ELSE Head(acks).data.roomId

\* C13: while the usedId: marker of an identifier is set, no room is created
\* with that identifier (createRoomWithId returns no room, createRoom does not
\* allocate it), and a join-as-admin for it is answered with a live room that
\* has another identifier.
ReservedIdNotReused ==
  [][\A id \in usedIds :
       /\ id \notin DOMAIN rooms => id \notin DOMAIN rooms'
       /\ (ev'.type = "join-as-admin" /\ ev'.room = id) =>
            /\ ReturnedRoomId(out') # id
            /\ ReturnedRoomId(out') \in DOMAIN rooms']_vars

\* C13 witness: a join-as-admin for a reserved identifier has been answered
JoinedAsAdminOnReservedId ==
  /\ ev.type = "join-as-admin"
  /\ ev.room \in usedIds
  /\ ev.room \notin DOMAIN rooms
  /\ ReturnedRoomId(out) \in DOMAIN rooms

\* C14: under every interleaving of createRoom and createRoomWithId calls, no
\* call writes its room record over a live record, and no call returns a room
\* for an identifier that another call in progress has returned a room for.
NoWriteOverLiveRoom ==
  [][\A c \in Conns :
       (calls[c].at = "checked" /\ calls'[c].at = "returned") =>
         /\ calls[c].id \notin DOMAIN rooms
         /\ \A d \in Conns \ {c} :
              calls[d].at = "returned" => calls[d].id # calls[c].id]_vars

\* the admin rows of a room
AdminRows(room) ==
  {s \in DOMAIN room.participants : room.participants[s].isAdmin}

\* the recorded handler run processes a join-room that presents the adminToken
\* from a session that is not a participant, while the room's admin is
\* disconnected (and, where the grace timer exists, the grace period runs)
AdminReturnsWithNewSession ==
  /\ NewcomerJoins
  /\ PresentsToken(rooms[ev'.room], ev'.token)
  /\ AdminRows(rooms[ev'.room]) # {}
  /\ ~HasConnectedAdmin(rooms[ev'.room])
  /\ variant = "sync" => timers[ev'.room] > 0

\* C15: after such a join-room the old admin row is gone, no disconnected row
\* remains, the new session is an admin row, admin-reconnected has been
\* broadcast to the room, and no grace timeout is pending for the room.
AdminRestoredByNewSession ==
  [][AdminReturnsWithNewSession =>
       LET r == ev'.room
       IN /\ r \in DOMAIN rooms'
          /\ AdminRows(rooms[r]) \cap DOMAIN rooms'[r].participants = {}
          /\ \A s \in DOMAIN rooms'[r].participants :
               rooms'[r].participants[s].isConnected
          /\ ev'.sid \in DOMAIN rooms'[r].participants
          /\ rooms'[r].participants[ev'.sid].isAdmin
          /\ \E i \in DOMAIN out' :
               out'[i].ev = "admin-reconnected" /\ out'[i].via = "room"
          /\ timers'[r] = 0]_vars

\* ---- the room lifecycle with the grace timer's callback scheduled fairly ----

\* the observation of a callback ends and the event loop takes the next task
Resume ==
  /\ ev.type # "none"
  /\ ev' = NoEvent
  /\ out' = <<>>
  /\ UNCHANGED <<variant, scope, calls, rooms, usedIds, socketToRoom, joined, status,
                 nextToken, seen, timers, updates>>

\* the handlers run without being recorded; only the timer callback is observed
NextLive ==
  \/ Next /\ (ev' = NoEvent \/ ev'.type = "grace-timeout")
  \/ Resume

\* a pending setTimeout callback of a room is eventually run by the event loop
SpecLive ==
  Init /\ [][NextLive]_vars
       /\ WF_vars(Resume)
       /\ \A r \in RoomIds : WF_vars(GraceTimeout(r))

\* the room is live and every admin row of it is disconnected
AdminAway(r) ==
  /\ r \in DOMAIN rooms
  /\ AdminRows(rooms[r]) # {}
  /\ ~HasConnectedAdmin(rooms[r])

\* the room is deleted and its identifier is refused to an explicit create
RoomClosed(r) == r \notin DOMAIN rooms /\ r \in usedIds /\ ~isRoomIdAvailable(r)

\* C16: a room whose admin is away is eventually closed (deleted, identifier
\* reserved) unless an admin comes back first, and the callback that closes it
\* broadcasts room-closed to the room.
AbandonedRoomCloses ==
  /\ \A r \in RoomIds :
       AdminAway(r) ~> (RoomClosed(r) \/ (r \in DOMAIN rooms /\ HasConnectedAdmin(rooms[r])))
  /\ [](ev.type = "grace-timeout" =>
          /\ RoomClosed(ev.room)
          /\ Msg(ToRoom(ev.room), "room-closed", TRUE) \in Emitted)

\* the hasAdmin field of the room-check-result sent by the recorded check-room
CheckedHasAdmin ==
  LET acks == SelectSeq(out, LAMBDA m : m.ev = "room-check-result")
  IN Head(acks).data.hasAdmin

\* C17: roomHasAdmin(id) is true exactly when id is a live room with a
\* participant that is admin and connected, for every identifier and in the
\* answer check-room gives; it is false for a room whose admins are all
\* disconnected and for an identifier without a room.
RoomHasAdminIffConnectedAdmin ==
  /\ \A r \in RoomIds :
       roomHasAdmin(r) <=> (r \in DOMAIN rooms /\ HasConnectedAdmin(rooms[r]))
  /\ ev.type = "check-room" =>
       /\ CheckedHasAdmin <=>
            (ev.room \in DOMAIN rooms /\ HasConnectedAdmin(rooms[ev.room]))
       /\ ev.room \notin DOMAIN rooms => ~CheckedHasAdmin
       /\ (ev.room \in DOMAIN rooms /\ AdminAway(ev.room)) => ~CheckedHasAdmin

\* check-room has answered for a room whose only admin is disconnected
CheckedRoomWithAdminAway ==
  /\ ev.type = "check-room"
  /\ AdminAway(ev.room)
  /\ ~CheckedHasAdmin

\* the recorded join-room comes from a session outside the room, without the
\* room's adminToken, while no admin row of the room is connected
NewcomerWithoutAdmin ==
  /\ NewcomerJoins
  /\ ~PresentsToken(rooms[ev'.room], ev'.token)
  /\ ~HasConnectedAdmin(rooms[ev'.room])

\* C18: a join-room of a newcomer without the adminToken, sent while the room
\* has no connected admin, is answered with one error to the caller and leaves
\* the rooms, the socket registry and the channel memberships as they were.
NewcomerWaitsForAdmin ==
  [][NewcomerWithoutAdmin =>
       /\ rooms' = rooms
       /\ socketToRoom' = socketToRoom
       /\ joined' = joined
       /\ timers' = timers
       /\ out' = << Error(ev'.conn, "Waiting for admin") >>]_vars

\* a newcomer without the adminToken has been refused by a room whose admin
\* row is disconnected and which has room for more participants
NewcomerRefusedWhileAdminAway ==
  /\ ev.type = "join-room"
  /\ ev.room \in DOMAIN rooms
  /\ ev.sid \notin DOMAIN rooms[ev.room].participants
  /\ ~PresentsToken(rooms[ev.room], ev.token)
  /\ AdminAway(ev.room)
  /\ Size(rooms[ev.room]) < MAX_PARTICIPANTS
  /\ out = << Error(ev.conn, "Waiting for admin") >>

\* the callback payload of the recorded join-as-admin
AdminAck(msgs) == Head(SelectSeq(msgs, LAMBDA m : m.ev = "callback")).data

\* C19: join-as-admin replies success; the caller's session is a connected
\* admin row of the returned room and the socket is registered for it; the
\* returned identifier is the requested one exactly when the requested one was
\* neither live nor reserved or was a live room without a connected admin, and
\* otherwise it is an identifier that was neither live nor reserved.
JoinAsAdminLandsInRoom ==
  [][ev'.type = "join-as-admin" =>
       LET req == ev'.room
           id == ReturnedRoomId(out')
       IN /\ AdminAck(out').success
          /\ id \in DOMAIN rooms'
          /\ AdminAck(out').sessionId \in DOMAIN rooms'[id].participants
          /\ LET p == rooms'[id].participants[AdminAck(out').sessionId]
             IN p.isAdmin /\ p.isConnected
          /\ AdminAck(out').adminToken = rooms'[id].adminToken
          /\ socketToRoom'[ev'.conn] =
               [roomId |-> id, sessionId |-> AdminAck(out').sessionId]
          /\ id \in joined'[ev'.conn]
          /\ (id = req) <=>
               \/ req \notin DOMAIN rooms /\ req \notin usedIds
               \/ req \in DOMAIN rooms /\ ~HasConnectedAdmin(rooms[req])
          /\ id # req => (id \notin DOMAIN rooms /\ id \notin usedIds)]_vars

\* join-as-admin asked for a room that has a connected admin and was given a
\* room with another identifier
RedirectedFromAdministeredRoom ==
  /\ ev.type = "join-as-admin"
  /\ ev.room \in DOMAIN rooms
  /\ ReturnedRoomId(out) # ev.room
  /\ ReturnedRoomId(out) \in DOMAIN rooms
  /\ HasConnectedAdmin(rooms[ev.room])
  /\ ev.sid \notin DOMAIN rooms[ev.room].participants

\* C20: a join-room, reveal or reset addressed to an identifier without a live
\* room sends an error event to the caller and changes no room, registry,
\* channel membership, reservation or timer.
MissingRoomAnswersError ==
  [][(ev'.type \in {"join-room", "reveal", "reset"} /\ ev'.room \notin DOMAIN rooms) =>
       /\ rooms' = rooms
       /\ usedIds' = usedIds
       /\ socketToRoom' = socketToRoom
       /\ joined' = joined
       /\ timers' = timers
       /\ \E i \in DOMAIN out' :
            /\ out'[i].ev = "error"
            /\ out'[i].via = "socket"
            /\ out'[i].to = ToSocket(ev'.conn).to]_vars

OptionsReplaced ==
  /\ ev'.type = "update-settings"
  /\ ev'.room \in DOMAIN rooms
  /\ rooms'[ev'.room].settings.estimateOptions # rooms[ev'.room].settings.estimateOptions

\* C22: the room state that carries new estimateOptions has no votes, no
\* hasVoted flag and is not revealed, and the run broadcasts the new options
\* followed by votes-reset.
NewOptionsCarryNoVotes ==
  [][OptionsReplaced =>
       LET after == rooms'[ev'.room]
       IN /\ after.votes = <<>>
          /\ \A s \in DOMAIN after.participants : ~after.participants[s].hasVoted
          /\ ~after.isRevealed
          /\ out' = << Msg(ToRoom(ev'.room), "settings-updated", after.settings),
                       Msg(ToRoom(ev'.room), "votes-reset", TRUE) >>]_vars

\* update-settings has replaced the options of a room with two participants
OptionsReplacedInSharedRoom ==
  /\ ev.type = "update-settings"
  /\ ev.room \in DOMAIN rooms
  /\ rooms[ev.room].settings.estimateOptions = OptionsAlt
  /\ Size(rooms[ev.room]) = 2
  /\ rooms[ev.room].votes = <<>>
  /\ Msg(ToRoom(ev.room), "votes-reset", TRUE) \in Emitted

\* the recorded run is an authorised delete-estimate for a target without a vote
DeletesMissingEstimate ==
  /\ ev'.type = "delete-estimate"
  /\ ev'.room \in DOMAIN rooms
  /\ ev'.sid \notin DOMAIN rooms[ev'.room].votes
  /\ CanDeleteEstimate(ev'.conn, rooms[ev'.room], ev'.sid, ev'.token)

\* the recorded run is an authorised stop-timer for a room whose timer is stopped
StopsStoppedTimer ==
  /\ ev'.type = "stop-timer"
  /\ HasAdminToken(ev'.room, ev'.token)
  /\ rooms[ev'.room].timerStartedAt = NoTime

\* C23: deleting an estimate that does not exist and stopping a timer that is
\* stopped send nothing: no broadcast and no error.
IdleRequestsSendNothing ==
  [][(DeletesMissingEstimate \/ StopsStoppedTimer) => out' = <<>>]_vars

\* ---- serializeRoom / deserializeRoom on full room records ----
MaxTripSessions == 2
MaxTripClock == 2

\* ServerParticipant rows of session s
TripRows(s) ==
  [sessionId : {s}, displayName : {"name"}, isAdmin : BOOLEAN, isConnected : BOOLEAN,
   hasVoted : BOOLEAN, socketId : {NoSocket, 1}]

\* ServerRoom records
TripRooms ==
  UNION {
    [roomId : {1}, adminToken : {1}, adminSessionId : {1},
     settings : {DEFAULT_SETTINGS},
     participants : {f \in [P -> UNION {TripRows(s) : s \in P}] :
                       \A s \in P : f[s].sessionId = s},
     votes : UNION {[V -> Values] : V \in SUBSET P},
     isRevealed : BOOLEAN,
     timerStartedAt : {NoTime, 1},
     createdAt : {1}, ttl : {30},
     lastAccessedAt : (1..MaxTripClock),
     adminDisconnectTimer : BOOLEAN] : P \in SUBSET (1..MaxTripSessions) }

\* serializeRoom called when Date.now() = now: the parsed form of the JSON text
serializeRoomJson(room, now) ==
  [roomId |-> room.roomId,
   adminToken |-> room.adminToken,
   adminSessionId |-> room.adminSessionId,
   settings |-> room.settings,
   participants |->
     [s \in DOMAIN room.participants |->
        [sessionId |-> room.participants[s].sessionId,
         displayName |-> room.participants[s].displayName,
         isAdmin |-> room.participants[s].isAdmin,
         isConnected |-> room.participants[s].isConnected,
         hasVoted |-> room.participants[s].hasVoted]],
   votes |-> room.votes,
   isRevealed |-> room.isRevealed,
   timerStartedAt |-> room.timerStartedAt,
   createdAt |-> room.createdAt,
   ttl |-> room.ttl,
   lastAccessedAt |-> now]

\* variation of deserializeRoomJson that marks every participant disconnected
deserializeRoomJsonOffline(data) ==
  [data EXCEPT !.participants =
     [s \in DOMAIN @ |-> [sessionId |-> @[s].sessionId, displayName |-> @[s].displayName,
                          isAdmin |-> @[s].isAdmin, isConnected |-> FALSE,
                          hasVoted |-> @[s].hasVoted, socketId |-> NoSocket]]]
    @@ [adminDisconnectTimer |-> FALSE]

deserializeRoomJson(data) ==
  [roomId |-> data.roomId,
   adminToken |-> data.adminToken,
   adminSessionId |-> data.adminSessionId,
   settings |-> data.settings,
   participants |->
     [s \in DOMAIN data.participants |->
        [sessionId |-> data.participants[s].sessionId,
         displayName |-> data.participants[s].displayName,
         isAdmin |-> data.participants[s].isAdmin,
         isConnected |-> data.participants[s].isConnected,
         hasVoted |-> data.participants[s].hasVoted,
         socketId |-> NoSocket]],
   votes |-> data.votes,
   isRevealed |-> data.isRevealed,
   timerStartedAt |-> data.timerStartedAt,
   createdAt |-> data.createdAt,
   ttl |-> data.ttl,
   lastAccessedAt |-> data.lastAccessedAt,
   adminDisconnectTimer |-> FALSE]

\* a round trip in progress: the room handed in, the clock, and what came out
TripCall(room, now, at, json, back) ==
  [op |-> "serializeRoom", room |-> room, now |-> now, at |-> at,
   json |-> json, back |-> back]

SerializeStep(c) ==
  /\ calls[c].op = "serializeRoom"
  /\ calls[c].at = "room"
  /\ calls' = [calls EXCEPT ![c] = TripCall(@.room, @.now, "json",
                                            serializeRoomJson(@.room, @.now), 0)]
  /\ UNCHANGED <<rooms, usedIds, nextToken, seen>>
  /\ StoreFrame

DeserializeStep(c) ==
  /\ calls[c].op = "serializeRoom"
  /\ calls[c].at = "json"
  /\ calls' = [calls EXCEPT ![c] = TripCall(@.room, @.now, "back", @.json,
                                            deserializeRoomJson(@.json))]
  /\ UNCHANGED <<rooms, usedIds, nextToken, seen>>
  /\ StoreFrame

InitTrip ==
  /\ variant = "async"
  /\ scope = "members"
  /\ rooms = <<>>
  /\ usedIds = {}
  /\ socketToRoom = <<>>
  /\ joined = [c \in Conns |-> {}]
  /\ status = [c \in Conns |-> "open"]
  /\ nextToken = 1
  /\ seen = {}
  /\ timers = [r \in RoomIds |-> 0]
  /\ updates = 0
  /\ \E room \in TripRooms, now \in (1..MaxTripClock) :
       calls = [c \in Conns |-> IF c = 1 THEN TripCall(room, now, "room", 0, 0)
                                ELSE NoCall]
  /\ out = <<>>
  /\ ev = NoEvent

NextTrip ==
  \/ \E c \in Conns : SerializeStep(c)
  \/ \E c \in Conns : DeserializeStep(c)

SpecTrip == InitTrip /\ [][NextTrip]_vars

\* the finished round trips
TripsDone == {c \in Conns : calls[c].op = "serializeRoom" /\ calls[c].at = "back"}

\* the fields the round trip is said to carry over, lastAccessedAt apart
TripKeeps(room, back) ==
  /\ back.roomId = room.roomId
  /\ back.adminToken = room.adminToken
  /\ back.adminSessionId = room.adminSessionId
  /\ back.settings = room.settings
  /\ DOMAIN back.participants = DOMAIN room.participants
  /\ \A s \in DOMAIN room.participants :
       /\ back.participants[s].sessionId = room.participants[s].sessionId
       /\ back.participants[s].displayName = room.participants[s].displayName
       /\ back.participants[s].isAdmin = room.participants[s].isAdmin
       /\ back.participants[s].isConnected = room.participants[s].isConnected
       /\ back.participants[s].hasVoted = room.participants[s].hasVoted
       /\ back.participants[s].socketId = NoSocket
  /\ back.votes = room.votes
  /\ back.isRevealed = room.isRevealed
  /\ back.timerStartedAt = room.timerStartedAt
  /\ back.createdAt = room.createdAt
  /\ back.ttl = room.ttl
  /\ back.adminDisconnectTimer = FALSE

ClearAllRemovesNonAdmins ==
  [][(ev'.type = "clear-all-participants" /\ HasAdminToken(ev'.room, ev'.token)) =>
       LET before == rooms[ev'.room]
           after == rooms'[ev'.room]
           removed == DOMAIN before.participants \ AdminRows(before)
       IN /\ DOMAIN after.participants = AdminRows(before)
          /\ \A s \in AdminRows(before) : after.participants[s] = before.participants[s]
          /\ DOMAIN after.votes = DOMAIN before.votes \ removed
          /\ \A s \in DOMAIN after.votes : after.votes[s] = before.votes[s]
          /\ Len(out') = Cardinality(removed)
          /\ \A s \in removed :
               \E i \in DOMAIN out' : out'[i] = Msg(ToRoom(ev'.room), "participant-left", s)
          /\ after.settings = before.settings
          /\ after.isRevealed = before.isRevealed]_vars

\* clear-all-participants has removed a participant and the admin's vote stays
ClearedAllButVotingAdmin ==
  /\ ev.type = "clear-all-participants"
  /\ ev.room \in DOMAIN rooms
  /\ Len(out) >= 1
  /\ out[1].ev = "participant-left"
  /\ AdminRows(rooms[ev.room]) \cap DOMAIN rooms[ev.room].votes # {}

\* C26: once an admin row of a room is connected again no grace-timer task of
\* the room is pending, and the timer callback never closes a room that has a
\* connected admin row.
NoGraceTimeoutWhileAdminConnected ==
  [][/\ \A r \in DOMAIN rooms' :
          (ev'.type \in {"join-room", "join-as-admin"} /\ HasConnectedAdmin(rooms'[r]))
            => timers'[r] = 0
     /\ (ev'.type = "grace-timeout" /\ ev'.room \in DOMAIN rooms)
          => ~HasConnectedAdmin(rooms[ev'.room])]_vars

\* ---- two handlers of the Redis-backed revision interleaved at their awaits ----

\* what saveRoom writes and a later getRoom reads back
Persisted(room) == deserializeRoom(serializeRoom(room))

\* the events the interleaved handlers process: vote and join-room on room 1
AsyncOps ==
  {[kind |-> "vote", sid |-> s, value |-> v] : s \in 1..MaxRoundSessions, v \in Values}
    \cup {[kind |-> "join-room", sid |-> s, value |-> 0] : s \in 1..MaxRoundSessions}

\* whether the handler of op, holding room, gets as far as saveRoom
Saves(op, room) ==
  IF op.kind = "vote"
  THEN ~room.isRevealed /\ op.sid \in DOMAIN room.participants
  ELSE ~RoomFull(room, op.sid)

\* the room a handler holds after its synchronous mutations of the copy it loaded
Mutated(op, c, room) ==
  IF op.kind = "vote"
  THEN [room EXCEPT !.votes = Put(@, op.sid, op.value),
                    !.participants[op.sid].hasVoted = TRUE]
  ELSE IF op.sid \in DOMAIN room.participants
       THEN RejoinRoom(room, c, op.sid)
       ELSE JoinNewRoom(room, c, op.sid, NoToken)

\* the handler of op, run from getRoom to saveRoom without another in between
RunAlone(op, c, room) ==
  IF Saves(op, room) THEN Persisted(Mutated(op, c, room)) ELSE room

\* a handler between its awaits: the event, the copy getRoom returned, and the
\* record that was stored when the first handler of the overlap loaded
AsyncCall(op, copy, base, at) ==
  [op |-> op.kind, id |-> 1, sessionId |-> op.sid, at |-> at,
   event |-> op, copy |-> copy, base |-> base]

\* "const room = await getRoom(roomId)"
HandlerLoad(c, op) ==
  /\ calls[c] = NoCall
  /\ 1 \in DOMAIN rooms
  /\ LET others == {d \in Conns \ {c} : calls[d] # NoCall}
         base == IF others = {} THEN rooms[1] ELSE calls[CHOOSE d \in others : TRUE].base
     IN calls' = [calls EXCEPT ![c] = AsyncCall(op, rooms[1], base, "loaded")]
  /\ UNCHANGED <<rooms, usedIds, nextToken, seen>>
  /\ StoreFrame

\* the synchronous mutations and "await saveRoom(room)"
HandlerSave(c) ==
  /\ calls[c].at = "loaded"
  /\ rooms' = IF Saves(calls[c].event, calls[c].copy)
              THEN Put(rooms, 1, Persisted(Mutated(calls[c].event, c, calls[c].copy)))
              ELSE rooms
  /\ calls' = [calls EXCEPT ![c].at = "saved"]
  /\ UNCHANGED <<usedIds, nextToken, seen>>
  /\ StoreFrame

\* the handlers that overlapped have all returned
HandlersReturn ==
  /\ \E c \in Conns : calls[c] # NoCall
  /\ \A c \in Conns : calls[c] = NoCall \/ calls[c].at = "saved"
  /\ calls' = [c \in Conns |-> NoCall]
  /\ UNCHANGED <<rooms, usedIds, nextToken, seen>>
  /\ StoreFrame

InitAsync ==
  /\ variant = "async"
  /\ scope = "round"
  /\ rooms = [r \in {1} |->
                Persisted(SetParticipant(NewRoom(1, 1), 1, NewParticipant(TRUE, FALSE, 1)))]
  /\ usedIds = {}
  /\ socketToRoom = <<>>
  /\ joined = [c \in Conns |-> {}]
  /\ status = [c \in Conns |-> "open"]
  /\ nextToken = 2
  /\ seen = {1}
  /\ timers = [r \in RoomIds |-> 0]
  /\ updates = 0
  /\ calls = [c \in Conns |-> NoCall]
  /\ out = <<>>
  /\ ev = NoEvent

NextAsync ==
  \/ \E c \in Conns, op \in AsyncOps : HandlerLoad(c, op)
  \/ \E c \in Conns : HandlerSave(c)
  \/ HandlersReturn

SpecAsync == InitAsync /\ [][NextAsync]_vars

\* C27: when two handlers on one room have both finished, the persisted room
\* is what running the two handlers one after the other, in one of the two
\* orders, leaves from the record stored when the first of them loaded.
HandlersSerializable ==
  \A c, d \in Conns :
    (c # d /\ calls[c].at = "saved" /\ calls[d].at = "saved") =>
      rooms[1] \in {RunAlone(calls[d].event, d, RunAlone(calls[c].event, c, calls[c].base)),
                    RunAlone(calls[c].event, c, RunAlone(calls[d].event, d, calls[c].base))}

\* ---- handlers of the Redis-backed revision whose store accesses can fail ----

\* a handler between store accesses: the rooms as stored when it began
FailCall(op, id, sessionId, at, base) ==
  [op |-> op, id |-> id, sessionId |-> sessionId, at |-> at, base |-> base]

\* a create-room or an authorised clear-all-participants event arrives while
\* no other handler runs
HandlerBegin(c, op, r) ==
  /\ \A d \in Conns : calls[d] = NoCall
  /\ IF op = "create-room"
     THEN /\ r \notin DOMAIN rooms
          /\ seen # Sessions
          /\ calls' = [calls EXCEPT ![c] = FailCall(op, r, Min(Sessions \ seen), "begun", rooms)]
          /\ seen' = seen \cup {Min(Sessions \ seen)}
     ELSE /\ r \in DOMAIN rooms
          /\ calls' = [calls EXCEPT ![c] = FailCall(op, r, 0, "begun", rooms)]
          /\ seen' = seen
  /\ out' = <<>>
  /\ UNCHANGED <<rooms, usedIds, nextToken>>
  /\ UNCHANGED <<variant, scope, socketToRoom, joined, status, timers, updates, ev>>

\* the next store access of the handler succeeds (ok) or rejects (~ok)
StoreAccess(c, ok) ==
  LET call == calls[c]
      r == call.id
  IN /\ call.op \in {"create-room", "clear-all-participants"}
     /\ call.at \in {"begun", "created", "emitted"}
     /\ IF ~ok
        THEN /\ calls' = [calls EXCEPT ![c].at = "failed"]
             /\ UNCHANGED <<rooms, nextToken, out>>
        ELSE IF call.op = "create-room" /\ call.at = "begun"
        THEN \* createRoom: redis.set of the new room
             /\ rooms' = Put(rooms, r, Persisted(NewRoom(nextToken, call.sessionId)))
             /\ nextToken' = nextToken + 1
             /\ calls' = [calls EXCEPT ![c].at = "created"]
             /\ UNCHANGED out
        ELSE IF call.op = "create-room"
        THEN \* room.participants.set, await saveRoom(room), callback
             /\ rooms' = Put(rooms, r, Persisted(SetParticipant(rooms[r], call.sessionId,
                                                   NewParticipant(TRUE, FALSE, c))))
             /\ calls' = [calls EXCEPT ![c].at = "done"]
             /\ out' = << Msg(ToSocket(c), "callback",
                              [success |-> TRUE, roomId |-> r,
                               adminToken |-> rooms[r].adminToken,
                               sessionId |-> call.sessionId]) >>
             /\ UNCHANGED nextToken
        ELSE IF call.at = "begun"
        THEN \* await getRoom, then the loop that deletes and emits participant-left
             /\ calls' = [calls EXCEPT ![c].at = "emitted"]
             /\ out' = LeftMsgs(ToRoom(r), rooms[r], NonAdmins(rooms[r]))
             /\ UNCHANGED <<rooms, nextToken>>
        ELSE \* await saveRoom(room)
             /\ rooms' = Put(rooms, r,
                             Persisted(DeleteVotes(DeleteParticipants(rooms[r], NonAdmins(rooms[r])),
                                                   NonAdmins(rooms[r]))))
             /\ calls' = [calls EXCEPT ![c].at = "done"]
             /\ UNCHANGED <<nextToken, out>>
     /\ UNCHANGED <<usedIds, seen>>
     /\ StoreFrame

\* the handler has returned or its promise has rejected
HandlerEnd(c) ==
  /\ calls[c].op \in {"create-room", "clear-all-participants"}
  /\ calls[c].at \in {"done", "failed"}
  /\ calls' = [calls EXCEPT ![c] = NoCall]
  /\ out' = <<>>
  /\ UNCHANGED <<rooms, usedIds, nextToken, seen>>
  /\ UNCHANGED <<variant, scope, socketToRoom, joined, status, timers, updates, ev>>

\* a room with its admin and one more participant, who may have voted
InitFail ==
  /\ variant = "async"
  /\ scope = "members"
  /\ \E voted \in SUBSET {1, 2}, connected \in BOOLEAN :
       rooms = [r \in {1} |->
         Persisted([SetParticipant(SetParticipant(NewRoom(1, 1), 1,
                                                  NewParticipant(TRUE, 1 \in voted, 1)),
                                   2, [NewParticipant(FALSE, 2 \in voted, 2)
                                         EXCEPT !.isConnected = connected])
                      EXCEPT !.votes = [s \in voted |-> 1]])]
  /\ usedIds = {}
  /\ socketToRoom = <<>>
  /\ joined = [c \in Conns |-> {}]
  /\ status = [c \in Conns |-> "open"]
  /\ nextToken = 2
  /\ seen = {1, 2}
  /\ timers = [r \in RoomIds |-> 0]
  /\ updates = 0
  /\ calls = [c \in Conns |-> NoCall]
  /\ out = <<>>
  /\ ev = NoEvent

NextFail ==
  \/ \E c \in Conns, r \in RoomIds : HandlerBegin(c, "create-room", r)
  \/ \E c \in Conns, r \in RoomIds : HandlerBegin(c, "clear-all-participants", r)
  \/ \E c \in Conns : StoreAccess(c, TRUE)
  \/ \E c \in Conns : StoreAccess(c, FALSE)
  \/ \E c \in Conns : HandlerEnd(c)

SpecFail == InitFail /\ [][NextFail]_vars

\* C28: when a store access of a handler has failed, the stored rooms are the
\* ones stored when the handler began and nothing has been emitted.
FailedHandlerLeavesNoTrace ==
  \A c \in Conns :
    (calls[c].op \in {"create-room", "clear-all-participants"} /\ calls[c].at = "failed") =>
      /\ rooms = calls[c].base
      /\ out = <<>>

\* ---- deleteRoom write by write, next to createRoom / createRoomWithId ----

\* "await redis.del(`room:${roomId}`)"
DeleteRoomDel(c, r) ==
  /\ StoreIdle(c)
  /\ r \in DOMAIN rooms
  /\ rooms' = Drop(rooms, {r})
  /\ calls' = [calls EXCEPT ![c] = [op |-> "deleteRoom", id |-> r, sessionId |-> 0,
                                    at |-> "deleted"]]
  /\ UNCHANGED <<usedIds, nextToken, seen>>
  /\ StoreFrame

\* "await redis.set(`usedId:${roomId}`, "1", "EX", USED_ID_TTL_SECONDS)"
\* resolves (ok) or rejects (~ok), and deleteRoom is over
DeleteRoomMark(c, ok) ==
  /\ ev.type = "none"
  /\ calls[c].op = "deleteRoom"
  /\ calls[c].at = "deleted"
  /\ usedIds' = IF ok THEN usedIds \cup {calls[c].id} ELSE usedIds
  /\ calls' = [calls EXCEPT ![c].at = "returned"]
  /\ UNCHANGED <<rooms, nextToken, seen>>
  /\ StoreFrame

NextDelete ==
  \/ \E c \in Conns, id \in RoomIds : CreateRoomWithIdCheck(c, id)
  \/ \E c \in Conns, id \in RoomIds : CreateRoomCheck(c, id)
  \/ \E c \in Conns : CreateRoomWrite(c)
  \/ \E c \in Conns : CreateRoomReturn(c)
  \/ \E c \in Conns, r \in RoomIds : DeleteRoomDel(c, r)
  \/ \E c \in Conns : DeleteRoomMark(c, TRUE)
  \/ \E c \in Conns : DeleteRoomMark(c, FALSE)

SpecDelete == InitStore /\ [][NextDelete]_vars

\* C29: from the first write of deleteRoom(id) until its caller has the
\* result, id is live or reserved, so that no createRoom or createRoomWithId
\* finds it available, also when the second write has failed.
DeletedIdStaysProtected ==
  \A c \in Conns :
    calls[c].op = "deleteRoom" => ~isRoomIdAvailable(calls[c].id)

\* C30: an update-settings that changes estimateOptions leaves votes, the
\* hasVoted flags, isRevealed and timerStartedAt as a reset of the same room
\* leaves them.
NewOptionsActAsReset ==
  [][OptionsReplaced =>
       LET after == rooms'[ev'.room]
           asReset == saveRoom(ResetRoom(rooms[ev'.room]))
       IN /\ after.votes = asReset.votes
          /\ \A s \in DOMAIN after.participants :
               after.participants[s].hasVoted = asReset.participants[s].hasVoted
          /\ after.isRevealed = asReset.isRevealed
          /\ after.timerStartedAt = asReset.timerStartedAt]_vars

\* C31: a vote for a live room that is not revealed, from a session that is a
\* participant, stores a value for the session, sets its hasVoted and
\* broadcasts vote-cast, changing nothing else of the room; any other vote
\* changes no room and emits nothing.
VoteAppliesOnlyInOpenRoom ==
  [][ev'.type = "vote" =>
       LET r == ev'.room
           s == ev'.sid
       IN IF r \in DOMAIN rooms /\ ~rooms[r].isRevealed
             /\ s \in DOMAIN rooms[r].participants
          THEN /\ s \in DOMAIN rooms'[r].votes
               /\ rooms'[r].votes[s] \in Values
               /\ rooms' = Put(rooms, r,
                     [rooms[r] EXCEPT !.votes = Put(@, s, rooms'[r].votes[s]),
                                      !.participants[s].hasVoted = TRUE])
               /\ out' = << Msg(ToRoom(r), "vote-cast",
                                [sessionId |-> s, hasVoted |-> TRUE]) >>
          ELSE rooms' = rooms /\ out' = <<>>]_vars

\* a vote sent to a revealed room by one of its participants was ignored
VoteIgnoredAfterReveal ==
  /\ ev.type = "vote"
  /\ ev.room \in DOMAIN rooms
  /\ rooms[ev.room].isRevealed
  /\ ev.sid \in DOMAIN rooms[ev.room].participants
  /\ ev.sid \notin DOMAIN rooms[ev.room].votes
  /\ out = <<>>

\* C32: after a reset by a caller with the adminToken, or by anyone when
\* allowOthersToDeleteEstimates is set, the room has no votes, no hasVoted
\* flag, isRevealed false and no timer start, and its participants, their
\* isAdmin and isConnected flags and its settings are as before.
ResetOpensRound ==
  [][(/\ ev'.type = "reset"
      /\ ev'.room \in DOMAIN rooms
      /\ \/ PresentsToken(rooms[ev'.room], ev'.token)
         \/ rooms[ev'.room].settings.allowOthersToDeleteEstimates) =>
       LET before == rooms[ev'.room]
           after == rooms'[ev'.room]
       IN /\ after.votes = <<>>
          /\ ~after.isRevealed
          /\ after.timerStartedAt = NoTime
          /\ DOMAIN after.participants = DOMAIN before.participants
          /\ \A s \in DOMAIN after.participants :
               /\ ~after.participants[s].hasVoted
               /\ after.participants[s].isAdmin = before.participants[s].isAdmin
               /\ after.participants[s].isConnected = before.participants[s].isConnected
          /\ after.settings = before.settings
          /\ after.adminToken = before.adminToken
          /\ out' = << Msg(ToRoom(ev'.room), "votes-reset", TRUE) >>]_vars

\* a reset without the adminToken, allowed by the settings, has been applied
\* to a room that has a disconnected participant
ResetByParticipant ==
  /\ ev.type = "reset"
  /\ ev.room \in DOMAIN rooms
  /\ ~PresentsToken(rooms[ev.room], ev.token)
  /\ rooms[ev.room].settings.allowOthersToDeleteEstimates
  /\ \E s \in DOMAIN rooms[ev.room].participants : ~rooms[ev.room].participants[s].isConnected
  /\ out = << Msg(ToRoom(ev.room), "votes-reset", TRUE) >>

\* C33: a room becomes revealed only in a reveal addressed to it by a caller
\* with the adminToken or under allowOthersToShowEstimates, which keeps the
\* votes and broadcasts them as they are; a revealed room becomes unrevealed
\* only in an authorised reset or in an update-settings with the adminToken
\* that changes estimateOptions.
RevealedOnlyByRevealAndReset ==
  [][ev'.type # "none" =>
       \A r \in DOMAIN rooms \cap DOMAIN rooms' :
         /\ (~rooms[r].isRevealed /\ rooms'[r].isRevealed) =>
              /\ ev'.type = "reveal"
              /\ ev'.room = r
              /\ \/ PresentsToken(rooms[r], ev'.token)
                 \/ rooms[r].settings.allowOthersToShowEstimates
              /\ rooms'[r].votes = rooms[r].votes
              /\ out' = << Msg(ToRoom(r), "votes-revealed", rooms[r].votes) >>
         /\ (rooms[r].isRevealed /\ ~rooms'[r].isRevealed) =>
              /\ ev'.room = r
              /\ \/ /\ ev'.type = "reset"
                    /\ \/ PresentsToken(rooms[r], ev'.token)
                       \/ rooms[r].settings.allowOthersToDeleteEstimates
                 \/ /\ ev'.type = "update-settings"
                    /\ PresentsToken(rooms[r], ev'.token)
                    /\ rooms'[r].settings.estimateOptions
                         # rooms[r].settings.estimateOptions]_vars

\* a reveal has broadcast the votes of two sessions
RevealedTwoVotes ==
  /\ ev.type = "reveal"
  /\ ev.room \in DOMAIN rooms
  /\ rooms[ev.room].isRevealed
  /\ Cardinality(DOMAIN rooms[ev.room].votes) = 2
  /\ out = << Msg(ToRoom(ev.room), "votes-revealed", rooms[ev.room].votes) >>

\* C34: the disconnect of a connection registered for a participant row sets
\* that row's isConnected to false and its socketId to empty and changes
\* nothing else of any room but the grace-timer handle: the row stays, with
\* its isAdmin and hasVoted, and so do the votes, the other rows, the settings,
\* isRevealed and timerStartedAt.
DisconnectKeepsIdentity ==
  [][(/\ ev'.type = "disconnect"
      /\ ev'.conn \in DOMAIN socketToRoom
      /\ socketToRoom[ev'.conn].roomId \in DOMAIN rooms
      /\ socketToRoom[ev'.conn].sessionId
           \in DOMAIN rooms[socketToRoom[ev'.conn].roomId].participants) =>
       LET r == socketToRoom[ev'.conn].roomId
           s == socketToRoom[ev'.conn].sessionId
       IN /\ r \in DOMAIN rooms'
          /\ rooms' = Put(rooms, r,
               [rooms[r] EXCEPT !.participants[s].isConnected = FALSE,
                                !.participants[s].socketId = NoSocket,
                                !.adminDisconnectTimer = rooms'[r].adminDisconnectTimer])
          /\ \E i \in DOMAIN out' :
               /\ out'[i].ev = "participant-updated"
               /\ out'[i].data = PublicParticipant(s, rooms'[r].participants[s])]_vars

\* the connection of a participant that holds a vote has disconnected
VoterDisconnected ==
  /\ ev.type = "disconnect"
  /\ \E r \in DOMAIN rooms, i \in DOMAIN out :
       /\ out[i].ev = "participant-updated"
       /\ out[i].data.sessionId \in DOMAIN rooms[r].votes
       /\ out[i].data.sessionId \in DOMAIN rooms[r].participants
       /\ ~rooms[r].participants[out[i].data.sessionId].isConnected
       /\ rooms[r].participants[out[i].data.sessionId].hasVoted

\* ---- broadcasts and saves of interleaved handlers of the Redis-backed revision ----

\* the events the interleaved handlers process on room 1: vote, join-room and
\* the admin's clear-all-participants
OrderOps ==
  AsyncOps \cup {[kind |-> "clear-all-participants", sid |-> 1, value |-> 0]}

\* the room-channel emits a handler makes between getRoom and saveRoom
EmitsBeforeSave(op, c, room) ==
  IF op.kind = "vote" THEN <<>>
  ELSE IF op.kind = "clear-all-participants"
  THEN LeftMsgs(ToRoom(1), room, NonAdmins(room))
  ELSE IF op.sid \in DOMAIN room.participants
  THEN LET back == [room EXCEPT !.participants[op.sid].socketId = c,
                                !.participants[op.sid].isConnected = TRUE]
       IN IF room.participants[op.sid].isAdmin /\ CleanUpDue(room)
          THEN LeftMsgs(ToRoom(1), back, StaleSessions(back, op.sid))
                 \o << Msg(ToRoom(1), "admin-reconnected", TRUE) >>
          ELSE <<>>
  ELSE << Msg(ToOthers(c, 1), "participant-joined",
              PublicParticipant(op.sid, NewParticipant(FALSE, op.sid \in DOMAIN room.votes, c))) >>

\* a handler between its awaits: the event, the copy getRoom returned, the
\* rank of its SET among the saves (0: none yet) and the places of its emits
\* in the sequence of emits
OrderCall(op, copy, at, saved, sent) ==
  [op |-> op.kind, id |-> 1, sessionId |-> op.sid, at |-> at,
   event |-> op, copy |-> copy, saved |-> saved, sent |-> sent]

\* "const room = await getRoom(roomId)"
OrderLoad(c, op) ==
  /\ calls[c] = NoCall
  /\ calls' = [calls EXCEPT ![c] = OrderCall(op, rooms[1], "loaded", 0, {})]
  /\ UNCHANGED <<rooms, usedIds, nextToken, seen>>
  /\ StoreFrame

\* the handler from the resolution of getRoom to "await saveRoom(room)": the
\* early returns, the mutations, the emits written before saveRoom, and the
\* SET that saveRoom issues
OrderRun(c) ==
  /\ calls[c].at = "loaded"
  /\ LET op == calls[c].event
         room == calls[c].copy
         saves == op.kind = "clear-all-participants" \/ Saves(op, room)
         after == IF op.kind = "clear-all-participants"
                  THEN DeleteVotes(DeleteParticipants(room, NonAdmins(room)), NonAdmins(room))
                  ELSE Mutated(op, c, room)
         msgs == IF saves THEN EmitsBeforeSave(op, c, room) ELSE <<>>
         rank == Cardinality({d \in Conns : calls[d] # NoCall /\ calls[d].saved > 0}) + 1
     IN /\ rooms' = IF saves THEN Put(rooms, 1, Persisted(after)) ELSE rooms
        /\ out' = out \o msgs
        /\ calls' = [calls EXCEPT ![c] =
             IF saves
             THEN OrderCall(op, room, "saving", rank, Len(out) + 1 .. Len(out) + Len(msgs))
             ELSE OrderCall(op, room, "done", 0, {})]
  /\ UNCHANGED <<variant, scope, usedIds, socketToRoom, joined, status, nextToken, seen,
                 timers, updates, ev>>

\* the handler after saveRoom resolved: vote broadcasts vote-cast; join-room
\* registers the socket and subscribes it to the room's channel
OrderResume(c) ==
  /\ calls[c].at = "saving"
  /\ LET op == calls[c].event
         msgs == IF op.kind = "vote"
                 THEN << Msg(ToRoom(1), "vote-cast", [sessionId |-> op.sid, hasVoted |-> TRUE]) >>
                 ELSE <<>>
     IN /\ out' = out \o msgs
        /\ calls' = [calls EXCEPT ![c].at = "done",
                                  ![c].sent = @ \cup (Len(out) + 1 .. Len(out) + Len(msgs))]
        /\ joined' = IF op.kind = "join-room" THEN [joined EXCEPT ![c] = @ \cup {1}] ELSE joined
        /\ socketToRoom' = IF op.kind = "join-room"
                           THEN Put(socketToRoom, c, [roomId |-> 1, sessionId |-> op.sid])
                           ELSE socketToRoom
  /\ UNCHANGED <<variant, scope, rooms, usedIds, status, nextToken, seen, timers, updates, ev>>

\* the handlers that overlapped have all returned
OrderReturn ==
  /\ \E c \in Conns : calls[c] # NoCall
  /\ \A c \in Conns : calls[c] = NoCall \/ calls[c].at = "done"
  /\ calls' = [c \in Conns |-> NoCall]
  /\ out' = <<>>
  /\ UNCHANGED <<variant, scope, rooms, usedIds, socketToRoom, joined, status, nextToken,
                 seen, timers, updates, ev>>

\* room 1 with its admin (session 1) connected on connection 1
InitOrder ==
  /\ variant = "async"
  /\ scope = "round"
  /\ rooms = [r \in {1} |->
                Persisted(SetParticipant(NewRoom(1, 1), 1, NewParticipant(TRUE, FALSE, 1)))]
  /\ usedIds = {}
  /\ socketToRoom = [c \in {1} |-> [roomId |-> 1, sessionId |-> 1]]
  /\ joined = [c \in Conns |-> IF c = 1 THEN {1} ELSE {}]
  /\ status = [c \in Conns |-> "open"]
  /\ nextToken = 2
  /\ seen = {1}
  /\ timers = [r \in RoomIds |-> 0]
  /\ updates = 0
  /\ calls = [c \in Conns |-> NoCall]
  /\ out = <<>>
  /\ ev = NoEvent

NextOrder ==
  \/ \E c \in Conns, op \in OrderOps : OrderLoad(c, op)
  \/ \E c \in Conns : OrderRun(c)
  \/ \E c \in Conns : OrderResume(c)
  \/ OrderReturn

SpecOrder == InitOrder /\ [][NextOrder]_vars

\* C35: of two handlers that have both saved, the one whose save came first
\* has made all its emits to a subscriber of the room's channel before every
\* emit the other made to that subscriber.
BroadcastsFollowSaves ==
  \A c, d \in Conns :
    (/\ calls[c] # NoCall /\ calls[d] # NoCall
     /\ calls[c].at = "done" /\ calls[d].at = "done"
     /\ calls[c].saved > 0 /\ calls[c].saved < calls[d].saved) =>
      \A i \in calls[c].sent, j \in calls[d].sent, x \in Conns :
        (x \in out[i].to /\ x \in out[j].to) => i < j

\* a vote was saved before a join-room, and a subscriber got the join-room's
\* broadcast before the vote-cast
JoinBroadcastOvertakesVote ==
  \E c, d \in Conns :
    /\ calls[c] # NoCall /\ calls[d] # NoCall
    /\ calls[c].at = "done" /\ calls[d].at = "done"
    /\ calls[c].op = "vote" /\ calls[d].op = "join-room"
    /\ calls[c].saved = 1 /\ calls[d].saved = 2
    /\ \E i \in calls[c].sent, j \in calls[d].sent, x \in Conns :
         x \in out[i].to /\ x \in out[j].to /\ j < i

\* C36: in every room, a participant whose session id has an entry in votes
\* has hasVoted set.
VoteEntryImpliesHasVoted ==
  \A r \in DOMAIN rooms : \A s \in DOMAIN rooms[r].participants :
    s \in DOMAIN rooms[r].votes => rooms[r].participants[s].hasVoted

\* a session whose vote outlived its row has joined again and its new row
\* shows the vote
RejoinedWithKeptVote ==
  /\ ev.type = "join-room"
  /\ ev.room \in DOMAIN rooms
  /\ ev.sid \in DOMAIN rooms[ev.room].participants
  /\ ev.sid \in DOMAIN rooms[ev.room].votes
  /\ \E i \in DOMAIN out : out[i].ev = "participant-joined" /\ out[i].data.hasVoted

\* C37: a participant row is marked connected exactly when some open
\* connection is registered for its room and session id.
ConnectedIffRegistered ==
  \A r \in DOMAIN rooms : \A s \in DOMAIN rooms[r].participants :
    rooms[r].participants[s].isConnected
      <=> \E c \in DOMAIN socketToRoom :
            /\ status[c] = "open"
            /\ socketToRoom[c].roomId = r
            /\ socketToRoom[c].sessionId = s

\* the older of two connections of a session has disconnected: the row is
\* marked disconnected while the newer connection is open and registered
OlderDisconnectHidesNewer ==
  /\ ev.type = "disconnect"
  /\ \E c \in DOMAIN socketToRoom :
       /\ status[c] = "open"
       /\ socketToRoom[c].roomId \in DOMAIN rooms
       /\ socketToRoom[c].sessionId \in DOMAIN rooms[socketToRoom[c].roomId].participants
       /\ ~rooms[socketToRoom[c].roomId].participants[socketToRoom[c].sessionId].isConnected
       /\ \E i \in DOMAIN out :
            /\ out[i].ev = "participant-updated"
            /\ out[i].data.sessionId = socketToRoom[c].sessionId

\* C38: a vote event that changes a room's votes was sent by a connection
\* registered for that room and that session.
VoteOnlyByOwnConnection ==
  [][(/\ ev'.type = "vote"
      /\ ev'.room \in DOMAIN rooms
      /\ rooms'[ev'.room].votes # rooms[ev'.room].votes) =>
       /\ ev'.conn \in DOMAIN socketToRoom
       /\ socketToRoom[ev'.conn].roomId = ev'.room
       /\ socketToRoom[ev'.conn].sessionId = ev'.sid]_vars

\* a connection registered for one session has cast the vote of another
VotedForAnotherSession ==
  /\ ev.type = "vote"
  /\ ev.conn \in DOMAIN socketToRoom
  /\ socketToRoom[ev.conn].roomId = ev.room
  /\ socketToRoom[ev.conn].sessionId # ev.sid
  /\ \E i \in DOMAIN out : out[i].ev = "vote-cast" /\ out[i].data.sessionId = ev.sid

\* C39: a connection that receives a broadcast of a room's channel was
\* admitted to a room, and if its registration is for this room, then when the
\* event arrives its registered session, or a session whose row names the
\* connection, is a participant of the room.
BroadcastsReachParticipantsOnly ==
  [][(ev'.type \notin {"none", "disconnect"} /\ ev'.room \in DOMAIN rooms) =>
       \A i \in DOMAIN out' : \A c \in out'[i].to :
         out'[i].via # "socket" =>
           /\ c \in DOMAIN socketToRoom
           /\ \/ socketToRoom[c].roomId # ev'.room
              \/ socketToRoom[c].sessionId \in DOMAIN rooms[ev'.room].participants
              \/ \E s \in DOMAIN rooms[ev'.room].participants :
                    rooms[ev'.room].participants[s].socketId = c]_vars

\* a connection whose only session was removed from the room is sent the
\* values of a later reveal
RemovedSessionSeesReveal ==
  /\ ev.type = "reveal"
  /\ ev.room \in DOMAIN rooms
  /\ ev.conn \in DOMAIN socketToRoom
  /\ \E i \in DOMAIN out : \E c \in out[i].to :
       /\ out[i].ev = "votes-revealed"
       /\ c # ev.conn
       /\ c \in DOMAIN socketToRoom
       /\ socketToRoom[c].roomId = ev.room
       /\ socketToRoom[c].sessionId \notin DOMAIN rooms[ev.room].participants
       /\ \A s \in DOMAIN rooms[ev.room].participants :
            /\ rooms[ev.room].participants[s].socketId # c
            /\ socketToRoom[ev.conn] = [roomId |-> ev.room, sessionId |-> s]

\* C40: whenever votes-reset is broadcast for a room, the room holds no
\* votes and no participant row has hasVoted set.
VotesResetMeansNoVotes ==
  ((\E m \in Emitted : m.ev = "votes-reset") /\ ev.room \in DOMAIN rooms) =>
    /\ rooms[ev.room].votes = <<>>
    /\ \A s \in DOMAIN rooms[ev.room].participants :
         ~rooms[ev.room].participants[s].hasVoted

\* update-settings with the options the room already has announced a reset
\* while the room keeps a vote
SameOptionsAnnounceReset ==
  /\ ev.type = "update-settings"
  /\ (\E m \in Emitted : m.ev = "votes-reset")
  /\ ev.room \in DOMAIN rooms
  /\ rooms[ev.room].votes # <<>>
  /\ \E s \in DOMAIN rooms[ev.room].participants :
       s \in DOMAIN rooms[ev.room].votes /\ rooms[ev.room].participants[s].hasVoted
====
